---- MODULE Spec2Model ----
(***************************************************************************)
(* HCS-U7 widget v3: the signal-to-decision pipeline.                      *)
(*                                                                         *)
(* The repository holds two copies of the decision orchestrator and of     *)
(* the policy store.  decisionSrc and configSrc say which copy a page      *)
(* load runs:                                                              *)
(*   decisionSrc = "base"      src/src/widget-v3/policy/decision.ts        *)
(*   decisionSrc = "hardened"  src/unnamed/part_007                        *)
(*   configSrc   = "tenant"    src/src/widget-v3/policy/remote-config.ts   *)
(*   configSrc   = "widget"    src/unnamed/part_008                        *)
(*                                                                         *)
(* Scores are fixed-point numbers: a score of p points is p * Scale.       *)
(* Times are seconds (Date.now() / 1000).                                  *)
(***************************************************************************)
EXTENDS Integers, Sequences, FiniteSets, TLC

\* ------------------------------------------------------------------ bounds
MaxCalls == 2
MaxLoads == 2
MaxTicks == 2

\* --------------------------------------------------------- basic constants
Scale == 10 * 10 * 10 * 10 * 10
TickStep == 200
StartTime == 1000

Pts(p) == p * Scale

Decisions == {"allow", "soft", "challenge", "hard_challenge", "bunker", "block"}

\* Decision severity, state.ts Decision union in escalation order
Severity(d) ==
  CASE d = "allow" -> 0
    [] d = "soft" -> 1
    [] d = "challenge" -> 2
    [] d = "hard_challenge" -> 3
    [] d = "bunker" -> 4
    [] d = "block" -> 5

\* ----------------------------------------------------------------- scoring
\* scoring.ts clamp: Math.max(0, Math.min(100, v))
clamp(v) == IF v < 0 THEN 0 ELSE IF v > Pts(100) THEN Pts(100) ELSE v

\* scoring.ts ema with alpha = 0.3: prev === 0 passes curr through
ema(prev, curr) ==
  IF prev = 0 THEN curr ELSE clamp((3 * curr + 7 * prev) \div 10)

\* scoring.ts combineRisk: clamp(client * 0.4 + server * 0.6)
combineRisk(clientRisk, serverRisk) ==
  clamp((4 * clientRisk + 6 * serverRisk) \div 10)

\* ---------------------------------------------------------------- policies
DEFAULT_THRESHOLDS == [allow |-> 35, soft |-> 60, challenge |-> 80, bunker |-> 92]

\* A remote config document as far as the pipeline reads it.
\*   mode    "adaptive" | "monitor" | "enforce" | "NOT_A_STRING"
\*   hasTh   the document has a truthy thresholds member
\*   softOk  softActions is an array (or absent); FALSE: a non-array value
\*   timeouts  configMs, validateMs, pingMs in milliseconds
\*   bunkerTtl bunkerPolicy.ttlSeconds, None when the document has none
Timeouts(configMs, validateMs, pingMs) ==
  [configMs |-> configMs, validateMs |-> validateMs, pingMs |-> pingMs]

Policy(mode, hasTh, th, bunker, kill, ttl, softOk) ==
  [mode |-> mode, hasTh |-> hasTh, th |-> th, bunker |-> bunker,
   kill |-> kill, ttl |-> ttl, softOk |-> softOk,
   timeouts |-> Timeouts(800, 1200, 400), bunkerTtl |-> <<900>>]

\* SAFE_DEFAULTS of the two policy stores (bunkerPolicy.enabled and the
\* timeouts differ)
SAFE_DEFAULTS(src) ==
  [Policy("adaptive", TRUE, DEFAULT_THRESHOLDS, src = "tenant", FALSE, 300, TRUE)
     EXCEPT !.timeouts = IF src = "tenant" THEN Timeouts(4000, 5000, 2000)
                         ELSE Timeouts(800, 1200, 400)]

Some(x) == <<x>>
None == << >>

evaluateRisk_InclusiveAllow(total, cfg) ==
  LET has == cfg # None
      t == IF has /\ cfg[1].hasTh THEN cfg[1].th ELSE DEFAULT_THRESHOLDS
      bunkerOn == has /\ cfg[1].bunker
  IN IF has /\ cfg[1].kill THEN "allow"
     ELSE IF has /\ cfg[1].mode = "monitor" THEN "allow"
     ELSE IF bunkerOn /\ total >= Pts(t.bunker) THEN "bunker"
     ELSE IF total <= Pts(t.allow) THEN "allow"
     ELSE IF total < Pts(t.soft) THEN "soft"
     ELSE IF total < Pts(t.challenge) THEN "challenge"
     ELSE IF total < Pts(t.bunker) THEN "hard_challenge"
     ELSE IF bunkerOn THEN "bunker"
     ELSE "block"

evaluateRisk_FallbackAllow(total, cfg) ==
  LET has == cfg # None
      t == IF has /\ cfg[1].hasTh THEN cfg[1].th ELSE DEFAULT_THRESHOLDS
      bunkerOn == has /\ cfg[1].bunker
  IN IF has /\ cfg[1].kill THEN "allow"
     ELSE IF has /\ cfg[1].mode = "monitor" THEN "allow"
     ELSE IF bunkerOn /\ total >= Pts(t.bunker) THEN "bunker"
     ELSE IF total < Pts(t.allow) THEN "allow"
     ELSE IF total < Pts(t.soft) THEN "soft"
     ELSE IF total < Pts(t.challenge) THEN "challenge"
     ELSE IF total < Pts(t.bunker) THEN "hard_challenge"
     ELSE IF bunkerOn THEN "bunker"
     ELSE "allow"

\* rules evaluateRisk(risk, config): total is risk.total, cfg is None for null
evaluateRisk(total, cfg) ==
  LET has == cfg # None
      t == IF has /\ cfg[1].hasTh THEN cfg[1].th ELSE DEFAULT_THRESHOLDS
      bunkerOn == has /\ cfg[1].bunker
  IN IF has /\ cfg[1].kill THEN "allow"
     ELSE IF has /\ cfg[1].mode = "monitor" THEN "allow"
     ELSE IF bunkerOn /\ total >= Pts(t.bunker) THEN "bunker"
     ELSE IF total < Pts(t.allow) THEN "allow"
     ELSE IF total < Pts(t.soft) THEN "soft"
     ELSE IF total < Pts(t.challenge) THEN "challenge"
     ELSE IF total < Pts(t.bunker) THEN "hard_challenge"
     ELSE IF bunkerOn THEN "bunker"
     ELSE "block"

\* ---------------------------------------------------------------- state
VARIABLES
  decisionSrc,   \* which decision orchestrator runs
  configSrc,     \* which policy store runs
  now,           \* Date.now() in seconds
  ticks,         \* clock steps taken
  loads,         \* page loads so far
  storageOk,     \* supportsLocalStorage()
  localStorage,  \* persisted items by cache key
  whitelist,     \* sessionStorage 'hcs:bunker:whitelist'
  memoryCache,   \* remote-config memoryCache
  config,        \* state.config (widgetPublicId, tenantId)
  state,         \* the WidgetState singleton
  bootPc,        \* position of boot()
  fetch,         \* the fetchRemoteConfig call in flight
  calls,         \* runDecision invocations
  effects,       \* what the page load has done so far
  status,        \* window.HCS_STATUS
  probe          \* inputs and outputs of a pure function under test

envVars == <<decisionSrc, configSrc, now, ticks, loads, storageOk>>
storeVars == <<localStorage, memoryCache, config, fetch>>
sessionVars == <<state, whitelist, calls, effects, status, bootPc>>
vars == <<envVars, storeVars, sessionVars, probe>>

\* ------------------------------------------------------- initial values
\* state.ts: the WidgetState literal; lastRisk holds the number of the call
\* whose breakdown it references (0 for null)
FreshState ==
  [remoteConfig |-> None, sessionValidated |-> FALSE, sessionToken |-> "",
   lastDecision |-> "null", lastRisk |-> 0, lastValidation |-> "null",
   lastSeen |-> 0, degraded |-> FALSE, ready |-> FALSE,
   bunkerActive |-> FALSE, emaScore |-> 0]

\* One runDecision invocation: its position, its locals, and what is known
\* of it afterwards (srv: how validate() ended; scored: assessRisk ran;
\* after: it was made when every earlier invocation had settled)
IdleCall ==
  [pc |-> "idle", total |-> 0, finalScore |-> 0, srv |-> "none",
   decision |-> "null", path |-> "none", ret |-> "null",
   scored |-> FALSE, after |-> FALSE, retryShown |-> FALSE]

NoEffects ==
  [assess |-> 0, validate |-> 0, soft |-> 0, challenge |-> 0, gate |-> 0,
   block |-> 0, allow |-> 0, ping |-> 0, cfgFetch |-> 0]

NoStatus == [set |-> FALSE, ready |-> FALSE, lastDecision |-> "null", degraded |-> FALSE]

Bump(efx, f) == [efx EXCEPT ![f] = @ + 1]

\* ------------------------------------------------ inputs of the pipeline
\* clientRisk.total after assessRisk (and applyDevTolerance), in points
ClientScores == {10, 62, 95}

\* what safeFetch('/widget/validate') yields: reach = FALSE is null
\* (timeout, network error, non-2xx, 204, unparseable body)
Resp(reach, action, hasRisk, risk, token) ==
  [reach |-> reach, action |-> action, hasRisk |-> hasRisk, risk |-> risk,
   token |-> token]

Unreachable == Resp(FALSE, "", FALSE, 0, "")

ServerResponses ==
  { Resp(TRUE, "allow", FALSE, 0, "tok"),
    Resp(TRUE, "allow", TRUE, 90, ""),
    Resp(TRUE, "block", FALSE, 0, ""),
    Resp(TRUE, "bunker", TRUE, 90, "") }

ValidateOutcomes == {Unreachable} \cup ServerResponses

\* bunker.ts: ttl = bunkerPolicy.ttlSeconds ?? 900
BunkerTtl == 900

\* --------------------------------------------- the decision orchestrator
\* what one step of runDecision leaves behind
Out(st, call, efx, wl) == [st |-> st, call |-> call, efx |-> efx, wl |-> wl]

\* the invocation has returned: its locals are gone, what it returned stays
Finish(call, ret, path) ==
  [IdleCall EXCEPT !.pc = "done", !.ret = ret, !.path = path, !.srv = call.srv,
                   !.scored = call.scored, !.after = call.after]

\* soft.ts executeSoft: actions.join / for..of throw on a non-array softActions
softOk(st) == st.remoteConfig = None \/ st.remoteConfig[1].softOk

bunkerEnabled_Never(st) == FALSE

\* state.remoteConfig?.bunkerPolicy?.enabled
bunkerEnabled(st) == st.remoteConfig # None /\ st.remoteConfig[1].bunker

ReturnStored_AlwaysAllow(last) == "allow"

\* runDecision: return state.lastDecision ?? 'allow'
ReturnStored(last) == IF last = "null" THEN "allow" ELSE last

\* runDecision catch (err): decision.ts 105-113, part_007 168-177
catchHandler(st, call, efx, wl) ==
  IF decisionSrc = "base"
  THEN Out([st EXCEPT !.degraded = TRUE, !.lastDecision = "allow",
                      !.sessionValidated = TRUE],
           Finish(call, "allow", "catch"), Bump(efx, "allow"), wl)
  ELSE LET st1 == [st EXCEPT !.degraded = TRUE, !.lastDecision = "soft",
                             !.sessionValidated = TRUE]
       IN IF softOk(st1)
          THEN Out(st1, [call EXCEPT !.pc = "awaitSoft", !.path = "catch"],
                   Bump(efx, "soft"), wl)
          ELSE Out(st1, [call EXCEPT !.pc = "rejected", !.path = "catch"], efx, wl)

\* bunker.ts executeBunker up to the gate: isWhitelisted() passes through,
\* an expired entry is removed and the gate is shown
executeBunker_InclusiveExpiry(st, call, efx, wl, path) ==
  IF wl # None /\ wl[1].expiresAt >= now
  THEN Out([st EXCEPT !.sessionValidated = TRUE], Finish(call, "bunker", path), efx, wl)
  ELSE Out(st, [call EXCEPT !.pc = "awaitBunker", !.path = path], Bump(efx, "gate"), None)

executeBunker(st, call, efx, wl, path) ==
  IF wl # None /\ wl[1].expiresAt > now
  THEN Out([st EXCEPT !.sessionValidated = TRUE], Finish(call, "bunker", path), efx, wl)
  ELSE Out(st, [call EXCEPT !.pc = "awaitBunker", !.path = path], Bump(efx, "gate"), None)

executeAction_AllowNotValidated(st, call, efx, wl, d) ==
  CASE d = "allow" ->
         Out(st, Finish(call, "allow", "rule"), Bump(efx, "allow"), wl)
    [] d = "soft" ->
         IF softOk(st)
         THEN Out(st, [call EXCEPT !.pc = "awaitSoft", !.path = "rule"],
                  Bump(efx, "soft"), wl)
         ELSE catchHandler(st, call, efx, wl)
    [] d \in {"challenge", "hard_challenge"} ->
         Out(st, [call EXCEPT !.pc = "awaitChallenge", !.path = "rule"],
             Bump(efx, "challenge"), wl)
    [] d = "bunker" -> executeBunker(st, call, efx, wl, "rule")
    [] d = "block" -> Out(st, Finish(call, "block", "rule"), Bump(efx, "block"), wl)

\* runDecision switch (decision)
executeAction(st, call, efx, wl, d) ==
  CASE d = "allow" ->
         Out([st EXCEPT !.sessionValidated = TRUE], Finish(call, "allow", "rule"),
             Bump(efx, "allow"), wl)
    [] d = "soft" ->
         IF softOk(st)
         THEN Out(st, [call EXCEPT !.pc = "awaitSoft", !.path = "rule"],
                  Bump(efx, "soft"), wl)
         ELSE catchHandler(st, call, efx, wl)
    [] d \in {"challenge", "hard_challenge"} ->
         Out(st, [call EXCEPT !.pc = "awaitChallenge", !.path = "rule"],
             Bump(efx, "challenge"), wl)
    [] d = "bunker" -> executeBunker(st, call, efx, wl, "rule")
    [] d = "block" -> Out(st, Finish(call, "block", "rule"), Bump(efx, "block"), wl)

\* part_007 100-119: anti-escalation hysteresis
hysteresis_SameMargin(last, d, finalScore, cfg) ==
  LET hasT == cfg # None /\ cfg[1].hasTh
      esc == d \in {"challenge", "hard_challenge"}
  IN IF last \in {"allow", "soft"} /\ esc /\ hasT
        /\ finalScore < Pts(cfg[1].th.challenge + 5)
     THEN "soft"
     ELSE d

hysteresis(last, d, finalScore, cfg) ==
  LET hasT == cfg # None /\ cfg[1].hasTh
      esc == d \in {"challenge", "hard_challenge"}
  IN IF last = "allow" /\ esc /\ hasT /\ finalScore < Pts(cfg[1].th.challenge + 5)
     THEN "soft"
     ELSE IF last = "soft" /\ esc /\ hasT /\ finalScore < Pts(cfg[1].th.challenge + 3)
     THEN "soft"
     ELSE d

bunkerReset_KeepsToken(st, wl) ==
  LET mode == IF st.remoteConfig = None THEN "adaptive" ELSE st.remoteConfig[1].mode
  IN IF mode # "enforce" /\ st.bunkerActive
     THEN [st |-> [st EXCEPT !.bunkerActive = FALSE, !.emaScore = 0], wl |-> None]
     ELSE [st |-> st, wl |-> wl]

\* part_007 37-45 with clearBunkerWhitelist (bunker.ts 134-141)
bunkerReset(st, wl) ==
  LET mode == IF st.remoteConfig = None THEN "adaptive" ELSE st.remoteConfig[1].mode
  IN IF mode # "enforce" /\ st.bunkerActive
     THEN [st |-> [st EXCEPT !.bunkerActive = FALSE, !.sessionToken = "",
                             !.emaScore = 0],
           wl |-> None]
     ELSE [st |-> st, wl |-> wl]

\* runDecision from its entry to the await of validate()
startCall(st0, call0, efx, wl, i, c, throws) ==
  IF st0.sessionValidated
  THEN Out(st0, Finish(call0, ReturnStored(st0.lastDecision), "short"), efx, wl)
  ELSE LET hard == decisionSrc = "hardened"
           r == IF hard THEN bunkerReset(st0, wl) ELSE [st |-> st0, wl |-> wl]
           st1 == r.st
           wl1 == r.wl
       IN IF throws
          THEN catchHandler(st1, call0, efx, wl1)
          ELSE LET e == IF hard THEN ema(st1.emaScore, Pts(c)) ELSE st1.emaScore
                   tot == IF hard THEN e ELSE Pts(c)
                   st2 == [st1 EXCEPT !.lastRisk = i, !.emaScore = e]
               IN Out(st2, [call0 EXCEPT !.pc = "awaitValidate", !.total = tot,
                                         !.scored = TRUE],
                      Bump(Bump(efx, "assess"), "validate"), wl1)

\* runDecision from the return of validate() to the next await or return
afterValidate(st0, call0, efx, wl, resp) ==
  LET hard == decisionSrc = "hardened"
      st1 == IF ~resp.reach THEN [st0 EXCEPT !.degraded = TRUE]
             ELSE IF resp.token # "" THEN [st0 EXCEPT !.sessionToken = resp.token]
             ELSE st0
      call1 == [call0 EXCEPT !.srv = IF resp.reach THEN "reached" ELSE "unreachable"]
      lv == IF resp.reach THEN resp.action ELSE "api_unreachable"
  IN IF hard /\ ~resp.reach
     THEN LET st2 == [st1 EXCEPT !.degraded = TRUE, !.lastDecision = "soft",
                                 !.lastSeen = now]
          IN IF softOk(st2)
             THEN Out(st2, [call1 EXCEPT !.pc = "awaitSoft", !.path = "degraded"],
                      Bump(efx, "soft"), wl)
             ELSE catchHandler(st2, call1, efx, wl)
     ELSE LET hasRisk == resp.reach /\ resp.hasRisk
              combined == IF hasRisk THEN combineRisk(call1.total, Pts(resp.risk))
                          ELSE call1.total
              ema2 == IF hard /\ hasRisk THEN ema(st1.emaScore, combined)
                      ELSE st1.emaScore
              finalScore == IF hard /\ hasRisk THEN ema2 ELSE combined
              st2 == [st1 EXCEPT !.emaScore = ema2]
              call2 == [call1 EXCEPT !.total = finalScore, !.finalScore = finalScore]
          IN IF resp.reach /\ resp.action = "block"
             THEN Out([st2 EXCEPT !.lastDecision = "block", !.lastValidation = lv],
                      Finish(call2, "block", "server_block"), Bump(efx, "block"), wl)
             ELSE IF resp.reach /\ resp.action = "bunker" /\ bunkerEnabled(st2)
             THEN executeBunker(
                    [st2 EXCEPT !.lastDecision = "bunker", !.lastValidation = lv,
                                !.bunkerActive = IF hard THEN TRUE ELSE @],
                    call2, efx, wl, "server_bunker")
             ELSE LET d0 == evaluateRisk(finalScore, st2.remoteConfig)
                      d == IF hard
                           THEN hysteresis(st2.lastDecision, d0, finalScore, st2.remoteConfig)
                           ELSE d0
                      st3 == [st2 EXCEPT
                                !.lastDecision = d, !.lastValidation = lv,
                                !.lastSeen = now,
                                !.sessionToken = IF resp.token # "" THEN resp.token ELSE @,
                                !.bunkerActive = IF hard /\ d = "bunker" THEN TRUE ELSE @]
                  IN executeAction(st3, [call2 EXCEPT !.decision = d], efx, wl, d)

Apply(i, o) ==
  /\ state' = o.st
  /\ calls' = [calls EXCEPT ![i] = o.call]
  /\ effects' = o.efx
  /\ whitelist' = o.wl

\* a runDecision() invocation: boot makes the first one (index.ts 76-78)
RunDecisionStart(i) ==
  /\ bootPc \in {"pipeline", "complete"}
  /\ calls[i].pc = "idle"
  /\ IF i = 1 THEN bootPc = "pipeline" ELSE calls[i - 1].pc # "idle"
  /\ \E c \in ClientScores, throws \in BOOLEAN :
       LET settled == \A j \in 1..(i - 1) : calls[j].pc \in {"done", "rejected"}
       IN Apply(i, startCall(state, [calls[i] EXCEPT !.after = settled], effects,
                             whitelist, i, c, throws))
  /\ UNCHANGED <<envVars, storeVars, status, bootPc, probe>>

\* the validate() promise settles
ValidateSettles(i, outcomes) ==
  /\ calls[i].pc = "awaitValidate"
  /\ \E resp \in outcomes :
       Apply(i, afterValidate(state, calls[i], effects, whitelist, resp))
  /\ UNCHANGED <<envVars, storeVars, status, bootPc, probe>>

ValidateReturn(i) == ValidateSettles(i, ValidateOutcomes)

\* the executeSoft() promise resolves
SoftDone(i) ==
  /\ calls[i].pc = "awaitSoft"
  /\ LET c == calls[i]
     IN IF c.path = "catch"
        THEN Apply(i, Out(state, Finish(c, "soft", "catch"), effects, whitelist))
        ELSE Apply(i, Out([state EXCEPT !.sessionValidated = TRUE],
                          Finish(c, "soft", c.path), effects, whitelist))
  /\ UNCHANGED <<envVars, storeVars, status, bootPc, probe>>

\* the visitor submits the slider challenge (allow.ts cognitiveLite)
afterChallenge_IgnoresOutcome(st, call, efx, wl, passed) ==
  Out([st EXCEPT !.sessionValidated = TRUE],
      Finish(call, call.decision, IF passed THEN "rule" ELSE "challenge_failed"),
      efx, wl)

\* runDecision from the return of executeChallenge() to its return
afterChallenge(st, call, efx, wl, passed) ==
  IF passed
  THEN Out([st EXCEPT !.sessionValidated = TRUE],
           Finish(call, call.decision, "rule"), efx, wl)
  ELSE Out([st EXCEPT !.lastDecision = "block"],
           Finish(call, "block", "challenge_failed"), Bump(efx, "block"), wl)

ChallengeSubmit(i) ==
  /\ calls[i].pc = "awaitChallenge"
  /\ \E passed \in BOOLEAN :
       Apply(i, afterChallenge(state, calls[i], effects, whitelist, passed))
  /\ UNCHANGED <<envVars, storeVars, status, bootPc, probe>>

\* bunker.ts 67: ttl = state.remoteConfig?.bunkerPolicy?.ttlSeconds ?? 900
\* (remoteConfig does not change while a gate is up)
bunkerTtl(st) ==
  IF st.remoteConfig = None \/ st.remoteConfig[1].bunkerTtl = None THEN BunkerTtl
  ELSE st.remoteConfig[1].bunkerTtl[1]

\* bunker.ts 39-48, called as addToWhitelist(state.sessionToken || 'bunker-pass', ttl)
addToWhitelist(st, t, ttlSeconds) ==
  Some([token |-> IF st.sessionToken = "" THEN "bunker-pass" ELSE st.sessionToken,
        expiresAt |-> t + ttlSeconds])

\* bunker.ts 108-126: the click handler of the gate's submit button; a wrong
\* value shows the retry message and leaves the gate up
gateSubmit_FailBlocks(st, call, efx, wl, success) ==
  IF success
  THEN Out([st EXCEPT !.sessionValidated = TRUE],
           Finish(call, "bunker", call.path), efx,
           addToWhitelist(st, now, bunkerTtl(st)))
  ELSE Out([st EXCEPT !.lastDecision = "block"],
           Finish(call, "block", call.path), Bump(efx, "block"), wl)

gateSubmit(st, call, efx, wl, success) ==
  IF success
  THEN Out([st EXCEPT !.sessionValidated = TRUE],
           Finish(call, "bunker", call.path), efx,
           addToWhitelist(st, now, bunkerTtl(st)))
  ELSE Out(st, [call EXCEPT !.retryShown = TRUE], efx, wl)

\* a click on the gate's submit button, its outcome drawn from `outcomes`
GateSubmits(i, outcomes) ==
  /\ calls[i].pc = "awaitBunker"
  /\ \E success \in outcomes :
       Apply(i, gateSubmit(state, calls[i], effects, whitelist, success))
  /\ UNCHANGED <<envVars, storeVars, status, bootPc, probe>>

\* the visitor passes the bunker gate
BunkerSubmit(i) == GateSubmits(i, {TRUE})

\* the visitor submits the bunker gate, with a right or a wrong value
BunkerAttempt(i) == GateSubmits(i, BOOLEAN)

\* index.ts exposeStatus
exposeStatus(st) ==
  [set |-> TRUE, ready |-> st.ready, lastDecision |-> st.lastDecision,
   degraded |-> st.degraded]

\* index.ts 78-89: boot's continuation after its runDecision() settles
BootComplete ==
  /\ bootPc = "pipeline"
  /\ calls[1].pc \in {"done", "rejected"}
  /\ LET st == IF calls[1].pc = "done"
               THEN [state EXCEPT !.ready = TRUE, !.lastSeen = now]
               ELSE [state EXCEPT !.degraded = TRUE, !.ready = TRUE]
     IN state' = st /\ status' = exposeStatus(st)
  /\ bootPc' = "complete"
  /\ UNCHANGED <<envVars, storeVars, whitelist, calls, effects, probe>>

\* ------------------------------------------------------- policy documents
P_adaptive == Policy("adaptive", TRUE, DEFAULT_THRESHOLDS, FALSE, FALSE, 300, TRUE)
P_adaptive_bunker == Policy("adaptive", TRUE, DEFAULT_THRESHOLDS, TRUE, FALSE, 300, TRUE)
P_enforce == Policy("enforce", TRUE, DEFAULT_THRESHOLDS, TRUE, FALSE, 300, TRUE)
P_monitor == Policy("monitor", TRUE, DEFAULT_THRESHOLDS, TRUE, FALSE, 300, TRUE)
P_badsoft == Policy("adaptive", TRUE, DEFAULT_THRESHOLDS, FALSE, FALSE, 300, FALSE)
P_kill == Policy("adaptive", TRUE, DEFAULT_THRESHOLDS, FALSE, TRUE, 300, TRUE)

\* policies with which boot reaches the pipeline
PipelinePolicies == {P_adaptive, P_adaptive_bunker, P_enforce, P_monitor, P_badsoft}

\* --------------------------------------------------------- policy store
\* a mode member that is not a string
NotAString == "<number>"

P_ttl0 == Policy("adaptive", TRUE, DEFAULT_THRESHOLDS, FALSE, FALSE, 0, TRUE)
\* thresholds present but not increasing: the soft bound below the allow bound
P_unordered ==
  Policy("adaptive", TRUE, [allow |-> 60, soft |-> 35, challenge |-> 80, bunker |-> 92],
         FALSE, FALSE, 300, TRUE)
P_nothresholds == Policy("adaptive", FALSE, DEFAULT_THRESHOLDS, FALSE, FALSE, 300, TRUE)
P_badmode == Policy(NotAString, TRUE, DEFAULT_THRESHOLDS, FALSE, FALSE, 300, TRUE)

\* what the config request can end in: the abort timer fires, fetch()
\* rejects, a non-2xx status, a body that is not JSON, the JSON value null,
\* or a JSON document, bare or wrapped as {config: ...}, with or without a
\* widgetPublicId member
NetOut(kind, wrapped, doc, wid) ==
  [kind |-> kind, wrapped |-> wrapped, doc |-> doc, wid |-> wid]

NetFailures ==
  {NetOut(k, FALSE, P_adaptive, "") :
     k \in {"timeout", "network_error", "http_error", "bad_json", "json_null"}}

NetDocs == {P_adaptive, P_kill, P_ttl0, P_unordered, P_nothresholds, P_badmode}

NetOutcomes ==
  NetFailures
  \cup {NetOut("json", FALSE, d, "") : d \in NetDocs}
  \cup {NetOut("json", TRUE, P_adaptive, ""), NetOut("json", FALSE, P_adaptive, "W2"),
        NetOut("json", FALSE, P_nothresholds, "W2")}

Keys == {"W1", "W2", "T1", "unknown"}

\* a localStorage item: absent, text that readLocalCache cannot use
\* ("garbage": JSON.parse rejects it, or it has no config or fetchedAt
\* member; the code treats both alike), or a cache entry
Item(kind, cfg, at) == [kind |-> kind, config |-> cfg, fetchedAt |-> at]
AbsentItem == Item("absent", P_adaptive, 0)
GarbageItem == Item("garbage", P_adaptive, 0)
EmptyStorage == [k \in Keys |-> AbsentItem]

CacheEntry(cfg, at) == [config |-> cfg, fetchedAt |-> at]

\* one fetchRemoteConfig call: its position, its caller, the persisted entry
\* it read, its result, the tier that served it (via), how the config
\* request failed (err: "network" for timeout, rejected fetch or non-2xx,
\* "shape" for a body that is not a JSON object or fails the validation)
IdleFetch ==
  [pc |-> "idle", by |-> "none", local |-> None, result |-> None, via |-> "none",
   err |-> "none"]
NoProbe == [fn |-> "none"]
NoConfig == [widgetPublicId |-> "", tenantId |-> ""]

\* remote-config.ts 49-53
cacheKey(cfg) ==
  IF cfg.widgetPublicId # "" THEN cfg.widgetPublicId
  ELSE IF cfg.tenantId # "" THEN cfg.tenantId ELSE "unknown"

\* remote-config.ts 55-66
readLocalCache(ls, cfg, ok) ==
  IF ~ok THEN None
  ELSE LET it == ls[cacheKey(cfg)]
       IN IF it.kind = "entry" THEN Some(CacheEntry(it.config, it.fetchedAt)) ELSE None

\* remote-config.ts 68-73; setItem may throw (quota), which is ignored
writeLocalCache(ls, cfg, ok, quotaFull, entry) ==
  IF ~ok \/ quotaFull THEN ls
  ELSE [ls EXCEPT ![cacheKey(cfg)] = Item("entry", entry.config, entry.fetchedAt)]

\* remote-config.ts 75-78: (entry.config.ttlSeconds || 300); times in seconds
isFresh(entry, t) ==
  t - entry.fetchedAt < (IF entry.config.ttl = 0 THEN 300 ELSE entry.config.ttl)

validShape_AcceptAll(cfg) == TRUE

validShape_ModeOnly(cfg) == cfg.mode # NotAString

\* remote-config.ts 138: !cfg.thresholds || typeof cfg.mode !== 'string'
validShape(cfg) == cfg.hasTh /\ cfg.mode # NotAString

FetchOut(f, mem, ls, cfg) == [fetch |-> f, mem |-> mem, ls |-> ls, cfg |-> cfg]
Resolved(by, cfg, via) ==
  [IdleFetch EXCEPT !.pc = "done", !.by = by, !.result = Some(cfg), !.via = via]

\* the class of a failed config request
errClass(kind) ==
  IF kind \in {"timeout", "network_error", "http_error"} THEN "network" ELSE "shape"

Failed(o, e) == [o EXCEPT !.fetch.err = e]

fetchCatch_AlwaysDefaults(by, local, mem, ls, cfg) ==
  FetchOut(Resolved(by, SAFE_DEFAULTS(configSrc), "defaults"), mem, ls, cfg)

\* fetchRemoteConfig catch (err): remote-config.ts 149-161
fetchCatch(by, local, mem, ls, cfg) ==
  IF local # None
  THEN FetchOut(Resolved(by, local[1].config, "stale"), local, ls, cfg)
  ELSE FetchOut(Resolved(by, SAFE_DEFAULTS(configSrc), "defaults"), mem, ls, cfg)

\* fetchRemoteConfig up to its await: remote-config.ts 84-108, part_008 84-107
fetchBegin(by, mem, ls, cfg, ok) ==
  IF mem # None /\ isFresh(mem[1], now)
  THEN FetchOut(Resolved(by, mem[1].config, "memory"), mem, ls, cfg)
  ELSE LET local == readLocalCache(ls, cfg, ok)
           noId == IF configSrc = "tenant"
                   THEN cfg.widgetPublicId = "" /\ cfg.tenantId = ""
                   ELSE cfg.widgetPublicId = ""
       IN IF local # None /\ isFresh(local[1], now)
          THEN FetchOut(Resolved(by, local[1].config, "local"), local, ls, cfg)
          ELSE IF noId
          THEN FetchOut(Resolved(by, SAFE_DEFAULTS(configSrc), "no_id"), mem, ls, cfg)
          ELSE FetchOut([IdleFetch EXCEPT !.pc = "awaitNet", !.by = by, !.local = local],
                        mem, ls, cfg)

\* fetchRemoteConfig after its await: remote-config.ts 125-161, part_008 120-148
fetchEnd(f, out, quotaFull, mem, ls, cfg, ok) ==
  IF out.kind # "json"
  THEN Failed(fetchCatch(f.by, f.local, mem, ls, cfg), errClass(out.kind))
  ELSE LET cfg1 == IF configSrc = "tenant" /\ out.wid # "" /\ cfg.widgetPublicId = ""
                   THEN [cfg EXCEPT !.widgetPublicId = out.wid] ELSE cfg
           \* widget: the wrapper object itself is validated and has no thresholds
           ok1 == IF configSrc = "widget" /\ out.wrapped THEN FALSE ELSE validShape(out.doc)
       IN IF ~ok1
          THEN Failed(fetchCatch(f.by, f.local, mem, ls, cfg1), errClass("shape"))
          ELSE LET entry == CacheEntry(out.doc, now)
               IN FetchOut(Resolved(f.by, out.doc, "network"), Some(entry),
                           writeLocalCache(ls, cfg1, ok, quotaFull, entry), cfg1)

ApplyFetch(o) ==
  /\ fetch' = o.fetch /\ memoryCache' = o.mem /\ localStorage' = o.ls /\ config' = o.cfg

\* ------------------------------------------------------------------ boot
\* the page's script tag and globals as initConfig reads them: data-widget
\* present or not, data-tenant absent, a legacy tenant id, a parseable signed
\* token or any other value, window.HCS_TENANT_ID set or not
Script(w, t, g) == [widget |-> w, tenant |-> t, global |-> g]

TenantAttrs == {"absent", "legacy", "token", "garbage"}

WidgetScript == Script(TRUE, "absent", FALSE)
TenantScript == Script(FALSE, "legacy", FALSE)
BareScript == Script(FALSE, "absent", FALSE)

Scripts == {WidgetScript, TenantScript, BareScript}

AnyScripts == {Script(w, t, g) : w \in BOOLEAN, t \in TenantAttrs, g \in BOOLEAN}

\* init.ts 12-33, 64-74, 82-93: the tenant id a data-tenant value yields
tenantOf(t) == IF t \in {"legacy", "token"} THEN "T1" ELSE ""

configValid_AnyTenantValue(script) ==
  \/ script.widget
  \/ script.tenant # "absent"
  \/ script.global

\* init.ts 39-132: the value initConfig returns
configValid(script) ==
  IF script.widget THEN TRUE
  ELSE IF script.tenant # "absent" THEN tenantOf(script.tenant) # ""
  ELSE script.global

\* init.ts 39-132: state.config after initConfig
initConfig(script) ==
  IF script.widget
    THEN [widgetPublicId |-> "W1", tenantId |-> tenantOf(script.tenant)]
  ELSE IF script.tenant # "absent"
    THEN [widgetPublicId |-> "", tenantId |-> tenantOf(script.tenant)]
  ELSE IF script.global
    THEN [widgetPublicId |-> "", tenantId |-> "T1"]
  ELSE NoConfig

killSwitchActive_Never(st) == FALSE

\* index.ts 52
killSwitchActive(st) == st.remoteConfig[1].kill

\* index.ts 36-48: initConfig, then fetchRemoteConfig up to its await
BootStep(script) ==
  IF ~configValid(script)
  THEN bootPc' = "aborted" /\ UNCHANGED <<storeVars, effects>>
  ELSE /\ bootPc' = "fetching"
       /\ ApplyFetch(fetchBegin("boot", memoryCache, localStorage,
                                initConfig(script), storageOk))
       /\ effects' = Bump(effects, "cfgFetch")

BootStart ==
  /\ bootPc = "init"
  /\ \E script \in Scripts : BootStep(script)
  /\ UNCHANGED <<envVars, state, whitelist, calls, status, probe>>

\* the config request settles in one of the outcomes outs
FetchSettles(outs) ==
  /\ fetch.pc = "awaitNet"
  /\ \E out \in outs, quotaFull \in BOOLEAN :
       ApplyFetch(fetchEnd(fetch, out, quotaFull, memoryCache, localStorage,
                           config, storageOk))
  /\ UNCHANGED <<envVars, sessionVars, probe>>

FetchReturn == FetchSettles(NetOutcomes)

\* the outcomes without the documents that differ from P_adaptive only in
\* members the store never reads (killSwitch, the threshold values)
StoreOutcomes ==
  {o \in NetOutcomes : o.kind = "json" => o.doc \notin {P_kill, P_unordered}}

StoreFetchReturn == FetchSettles(StoreOutcomes)

\* index.ts 48-76: boot resumes with the policy
BootConfigResolved ==
  /\ bootPc = "fetching" /\ fetch.by = "boot" /\ fetch.pc \in {"done", "rejected"}
  /\ IF fetch.pc = "rejected"
     THEN /\ state' = [state EXCEPT !.degraded = TRUE]
          /\ effects' = Bump(effects, "ping")
          /\ bootPc' = "pipeline" /\ UNCHANGED status
     ELSE LET st == [state EXCEPT !.remoteConfig = fetch.result]
          IN IF killSwitchActive(st)
             THEN /\ state' = [st EXCEPT !.ready = TRUE]
                  /\ status' = exposeStatus([st EXCEPT !.ready = TRUE])
                  /\ bootPc' = "killed" /\ UNCHANGED effects
             ELSE /\ state' = st
                  /\ effects' = Bump(effects, "ping")
                  /\ bootPc' = "pipeline" /\ UNCHANGED status
  /\ UNCHANGED <<envVars, storeVars, whitelist, calls, probe>>

\* a further fetchRemoteConfig() call on the same page
FetchCall ==
  /\ bootPc \in {"killed", "pipeline", "complete"}
  /\ fetch.pc = "done"
  /\ ApplyFetch(fetchBegin("caller", memoryCache, localStorage, config, storageOk))
  /\ UNCHANGED <<envVars, sessionVars, probe>>

\* ----------------------------------------------------------- environment
\* time passes
Tick ==
  /\ ticks < MaxTicks
  /\ now' = now + TickStep /\ ticks' = ticks + 1
  /\ UNCHANGED <<decisionSrc, configSrc, loads, storageOk, storeVars, sessionVars, probe>>

\* the visitor loads a page of the site again: module state starts over,
\* localStorage persists
Reload ==
  /\ loads < MaxLoads
  /\ bootPc \in {"aborted", "killed", "pipeline", "complete"}
  /\ loads' = loads + 1
  /\ memoryCache' = None /\ config' = NoConfig /\ fetch' = IdleFetch
  /\ state' = FreshState /\ bootPc' = "init"
  /\ calls' = [i \in 1..MaxCalls |-> IdleCall]
  /\ effects' = NoEffects /\ status' = NoStatus
  /\ UNCHANGED <<decisionSrc, configSrc, now, ticks, storageOk, localStorage, whitelist,
                 probe>>

\* something else on the origin damages the persisted item
DamageStorage ==
  /\ \E k \in Keys, it \in {GarbageItem} :
       /\ localStorage[k].kind = "entry"
       /\ localStorage' = [localStorage EXCEPT ![k] = it]
  /\ UNCHANGED <<envVars, memoryCache, config, fetch, sessionVars, probe>>

InitBoot ==
  /\ decisionSrc \in {"base", "hardened"}
  /\ configSrc \in {"tenant", "widget"}
  /\ now = StartTime /\ ticks = 0 /\ loads = 1
  /\ storageOk \in BOOLEAN
  /\ localStorage = EmptyStorage
  /\ whitelist = None
  /\ memoryCache = None
  /\ config = NoConfig
  /\ state = FreshState
  /\ bootPc = "init"
  /\ fetch = IdleFetch
  /\ calls = [i \in 1..MaxCalls |-> IdleCall]
  /\ effects = NoEffects
  /\ status = NoStatus
  /\ probe = NoProbe

\* the policy store across page loads
NextStore ==
  \/ BootStart
  \/ StoreFetchReturn
  \/ BootConfigResolved
  \/ FetchCall
  \/ Tick
  \/ Reload
  \/ DamageStorage

SpecStore == InitBoot /\ [][NextStore]_vars

\* one page load from the script tag to the exposed status
NextBoot ==
  \/ BootStart
  \/ FetchReturn
  \/ BootConfigResolved
  \/ RunDecisionStart(1)
  \/ ValidateReturn(1)
  \/ SoftDone(1)
  \/ ChallengeSubmit(1)
  \/ BunkerSubmit(1)
  \/ BootComplete

SpecBoot == InitBoot /\ [][NextBoot]_vars

\* ------------------------------------------------- boot on any script tag
\* index.ts 36-48 on a page with any of the script tags; `probe` keeps the
\* tag the page was loaded with
ScriptProbe(script) == [fn |-> "script", script |-> script]

BootStartAny ==
  /\ bootPc = "init"
  /\ \E script \in AnyScripts : BootStep(script) /\ probe' = ScriptProbe(script)
  /\ UNCHANGED <<envVars, state, whitelist, calls, status>>

NextInit ==
  \/ BootStartAny
  \/ FetchReturn
  \/ BootConfigResolved
  \/ RunDecisionStart(1)
  \/ ValidateReturn(1)
  \/ SoftDone(1)
  \/ ChallengeSubmit(1)
  \/ BunkerSubmit(1)
  \/ BootComplete

SpecInit == InitBoot /\ [][NextInit]_vars

Booted == probe.fn = "script"

\* boot returned at index.ts 40 and nothing of the widget has run: no policy
\* fetch, no heartbeat, no runDecision call, no mitigation, HCS_STATUS
\* undefined, the session state as constructed
StoppedSilently ==
  /\ bootPc = "aborted"
  /\ fetch = IdleFetch /\ memoryCache = None /\ config = NoConfig
  /\ effects = NoEffects
  /\ \A i \in 1..MaxCalls : calls[i] = IdleCall
  /\ state = FreshState
  /\ status = NoStatus

\* C28 as stated: on a page with no data-widget, no data-tenant and no
\* window.HCS_TENANT_ID, or with a data-tenant value that is neither a legacy
\* tenant id nor a parseable signed token, boot stops silently: no policy
\* fetch, no heartbeat, no decision pipeline, and window.HCS_STATUS is never
\* defined.
C28_InvalidConfigStopsBoot ==
  (Booted /\ (\/ probe.script = BareScript
              \/ probe.script.tenant = "garbage")) => StoppedSilently

\* C28 amended: the same, where the unusable data-tenant value counts only on
\* a script without data-widget; every other script starts the policy fetch.
C28_InvalidConfigWithoutWidgetStopsBoot ==
  Booted =>
    IF \/ probe.script = BareScript
       \/ ~probe.script.widget /\ probe.script.tenant = "garbage"
    THEN StoppedSilently
    ELSE bootPc # "aborted" /\ effects.cfgFetch = 1

\* an unusable data-tenant value stops boot even though
\* window.HCS_TENANT_ID is set
C28_Witness ==
  /\ probe = ScriptProbe(Script(FALSE, "garbage", TRUE))
  /\ StoppedSilently

\* ------------------------------------------ boot with the backend down
\* one page load on which every request ends in a timeout, a network error
\* or a non-2xx answer
OfflineOutcomes == {o \in NetFailures : o.kind \in {"timeout", "network_error", "http_error"}}

OfflineFetchReturn == FetchSettles(OfflineOutcomes)

OfflineValidateReturn == ValidateSettles(1, {Unreachable})

\* what the widget does by itself: boot, its requests' deadlines, the timer of
\* executeSoft and the continuation of boot
WidgetStep ==
  \/ BootStart
  \/ OfflineFetchReturn
  \/ BootConfigResolved
  \/ RunDecisionStart(1)
  \/ OfflineValidateReturn
  \/ SoftDone(1)
  \/ BootComplete

\* what only the visitor does: submitting the challenge or the bunker gate
VisitorStep ==
  \/ ChallengeSubmit(1)
  \/ BunkerSubmit(1)

NextOffline ==
  \/ WidgetStep
  \/ VisitorStep

\* the event loop runs every continuation that is ready and every timer
\* fires; nothing makes the visitor act
SpecOffline == InitBoot /\ [][NextOffline]_vars /\ WF_vars(WidgetStep)

\* C29: when every request to the backend fails or times out, boot with a
\* valid configuration eventually exposes HCS_STATUS with ready = true and
\* degraded = true, whether or not the visitor ever does anything.
C29_OfflineBootExposesDegradedStatus ==
  (bootPc = "fetching") ~> (status.set /\ status.ready /\ status.degraded)

\* --------------------------------------------------- the decision pipeline
\* runDecision under any sequence of invocations, overlapping ones included,
\* on a page load whose boot has resolved the policy and reached step 6.
Init ==
  /\ decisionSrc \in {"base", "hardened"}
  /\ configSrc = "widget"
  /\ now = StartTime /\ ticks = 0 /\ loads = 1
  /\ storageOk = TRUE
  /\ localStorage = EmptyStorage
  /\ whitelist = None
  /\ memoryCache = None
  /\ config = initConfig(WidgetScript)
  /\ \E p \in PipelinePolicies : state = [FreshState EXCEPT !.remoteConfig = Some(p)]
  /\ bootPc = "pipeline"
  /\ fetch = IdleFetch
  /\ calls = [i \in 1..MaxCalls |-> IdleCall]
  /\ effects = NoEffects
  /\ status = NoStatus
  /\ probe = NoProbe

Next ==
  \/ \E i \in 1..MaxCalls : RunDecisionStart(i)
  \/ \E i \in 1..MaxCalls : ValidateReturn(i)
  \/ \E i \in 1..MaxCalls : SoftDone(i)
  \/ \E i \in 1..MaxCalls : ChallengeSubmit(i)
  \/ \E i \in 1..MaxCalls : BunkerSubmit(i)

Spec == Init /\ [][Next]_vars

Calls == 1..MaxCalls

\* ------------------------------------------------------------------ C1
\* C1: once state.sessionValidated is true, a runDecision call returns the
\* stored state.lastDecision at once, runs no assessment, validation or
\* action, and changes no field of the session state.
C1_ShortCircuitChangesNothing ==
  [][\A i \in Calls :
       (state.sessionValidated /\ calls[i].pc = "idle" /\ calls'[i].pc # "idle")
         => /\ calls'[i].pc = "done"
            /\ state.lastDecision \in Decisions
            /\ calls'[i].ret = state.lastDecision
            /\ state' = state
            /\ effects' = effects
            /\ whitelist' = whitelist]_vars

\* a validated session with decision soft has answered a later call
C1_Witness ==
  \E i \in Calls :
    /\ calls[i].pc = "done" /\ calls[i].path = "short" /\ calls[i].ret = "soft"
    /\ state.sessionValidated

\* ------------------------------------------------------------------ C2
\* C2: a second runDecision call made after the first one has completed
\* returns the first call's decision and does not score again, also when
\* the first call ended in block.
C2_SecondCallIdempotent ==
  (calls[1].pc = "done" /\ calls[2].after)
    => /\ ~calls[2].scored
       /\ calls[2].pc = "done" => calls[2].ret = calls[1].ret

\* ------------------------------------------------------------------ C3
\* C3: when validate() yields no server result, the run's decision is never
\* allow and state.degraded is true when the run completes.
C3_UnreachableNeverAllow ==
  \A i \in Calls :
    (calls[i].pc = "done" /\ calls[i].srv = "unreachable")
      => calls[i].ret # "allow" /\ state.degraded

\* ------------------------------------------------------------------ C4
\* C4: when validate() yields no server result, the run shows no challenge
\* and no bunker gate and never ends in challenge, hard_challenge, bunker
\* or block.
C4_UnreachableNeverEscalates ==
  \A i \in Calls :
    calls[i].srv = "unreachable"
      => /\ calls[i].pc \notin {"awaitChallenge", "awaitBunker"}
         /\ calls[i].ret \notin {"challenge", "hard_challenge", "bunker", "block"}

\* ------------------------------------------------------------------ C5
\* C5: runDecision never rejects; a failure in any step, the error
\* handler's own fallback mitigation included, ends in a non-blocking
\* decision with state.degraded = true.
C5_NeverRejects ==
  \A i \in Calls :
    /\ calls[i].pc # "rejected"
    /\ (calls[i].pc = "done" /\ calls[i].path = "catch")
         => state.degraded /\ calls[i].ret \in {"allow", "soft"}

\* ------------------------------------------------------------------ C8
\* C8: with mode = monitor the pipeline only observes: no run ends in
\* block and no challenge or bunker gate is presented, whatever the client
\* score and the server response.
C8_MonitorOnlyObserves ==
  (state.remoteConfig # None /\ state.remoteConfig[1].mode = "monitor")
    => /\ effects.block = 0 /\ effects.challenge = 0 /\ effects.gate = 0
       /\ \A i \in Calls : calls[i].ret \notin {"block", "challenge", "hard_challenge", "bunker"}

\* ------------------------------------------------------------------
\* The rules engine on its own: a policy and a score are drawn, then
\* evaluateRisk is applied to them.
\* ------------------------------------------------------------------
MaxScore == 100
ThresholdGrid == {20, 50, 80}
Modes == {"monitor", "adaptive", "enforce"}

EvalThresholds ==
  {DEFAULT_THRESHOLDS} \cup
  {[allow |-> a, soft |-> s, challenge |-> c, bunker |-> b] :
     a \in ThresholdGrid, s \in ThresholdGrid, c \in ThresholdGrid, b \in ThresholdGrid}

\* null, documents without a thresholds member, and documents with any
\* thresholds of the grid, ordered or not
EvalPolicies ==
  {None}
  \cup {Some(Policy(m, FALSE, DEFAULT_THRESHOLDS, bk, k, 300, TRUE)) :
          m \in Modes, bk \in BOOLEAN, k \in BOOLEAN}
  \cup {Some(Policy(m, TRUE, th, bk, k, 300, TRUE)) :
          m \in Modes, th \in EvalThresholds, bk \in BOOLEAN, k \in BOOLEAN}

InitEval ==
  /\ decisionSrc = "base" /\ configSrc = "widget"
  /\ now = StartTime /\ ticks = 0 /\ loads = 1 /\ storageOk = TRUE
  /\ localStorage = EmptyStorage /\ whitelist = None /\ memoryCache = None
  /\ config = [widgetPublicId |-> "W1", tenantId |-> ""]
  /\ state = FreshState /\ bootPc = "init" /\ fetch = IdleFetch
  /\ calls = [i \in 1..MaxCalls |-> IdleCall]
  /\ effects = NoEffects /\ status = NoStatus
  /\ \E cfg \in EvalPolicies, sc \in 0..MaxScore :
       probe = [fn |-> "evaluateRisk", pc |-> "input", score |-> sc, cfg |-> cfg,
                out |-> "null"]

EvaluateRiskCall ==
  /\ probe.fn = "evaluateRisk" /\ probe.pc = "input"
  /\ probe' = [probe EXCEPT !.pc = "done",
                            !.out = evaluateRisk(Pts(probe.score), probe.cfg)]
  /\ UNCHANGED <<envVars, storeVars, sessionVars>>

NextEval == EvaluateRiskCall

SpecEval == InitEval /\ [][NextEval]_vars

Evaluated == probe.fn = "evaluateRisk" /\ probe.pc = "done"

\* the thresholds a policy is evaluated with
TableThresholds(cfg) ==
  IF cfg # None /\ cfg[1].hasTh THEN cfg[1].th ELSE [allow |-> 35, soft |-> 60, challenge |-> 80, bunker |-> 92]

\* the rule table of the rules engine, first matching row wins
RuleTable(sc, cfg) ==
  LET t == TableThresholds(cfg)
      rows == << <<cfg # None /\ cfg[1].kill, "allow">>,
                 <<cfg # None /\ cfg[1].mode = "monitor", "allow">>,
                 <<cfg # None /\ cfg[1].bunker /\ sc >= t.bunker, "bunker">>,
                 <<sc < t.allow, "allow">>,
                 <<sc < t.soft, "soft">>,
                 <<sc < t.challenge, "challenge">>,
                 <<sc < t.bunker, "hard_challenge">>,
                 <<cfg = None \/ ~cfg[1].bunker, "block">> >>
      first == CHOOSE k \in 1..Len(rows) :
                 rows[k][1] /\ \A j \in 1..(k - 1) : ~rows[j][1]
  IN rows[first][2]

\* the worked example: thresholds {35,60,80,92}
ExampleTable(sc, bunkerOn) ==
  CASE sc \in {0, 34}  -> "allow"
    [] sc \in {35, 59} -> "soft"
    [] sc \in {60, 79} -> "challenge"
    [] sc \in {80, 91} -> "hard_challenge"
    [] sc \in {92, 100} -> IF bunkerOn THEN "bunker" ELSE "block"
    [] sc = 95 -> IF bunkerOn THEN "bunker" ELSE "block"

ExampleScores == {0, 34, 35, 59, 60, 79, 80, 91, 92, 95, 100}

NoOverride(cfg) == cfg = None \/ (~cfg[1].kill /\ cfg[1].mode # "monitor")

\* ------------------------------------------------------------------ C6
\* C6: for every integer score in 0..100 and every policy, evaluateRisk
\* equals the ordered rule table; with thresholds {35,60,80,92} the scores
\* 0,34,35,59,60,79,80,91,92,100 give allow,allow,soft,soft,challenge,
\* challenge,hard_challenge,hard_challenge,bunker,bunker when bunker is
\* enabled and 95 gives block when it is disabled; a null policy and a
\* policy without thresholds are evaluated with {35,60,80,92}.
C6_EvaluateRiskIsRuleTable ==
  Evaluated =>
    /\ probe.out = RuleTable(probe.score, probe.cfg)
    /\ (/\ NoOverride(probe.cfg)
        /\ TableThresholds(probe.cfg) = [allow |-> 35, soft |-> 60, challenge |-> 80, bunker |-> 92]
        /\ probe.score \in ExampleScores)
         => probe.out = ExampleTable(probe.score, probe.cfg # None /\ probe.cfg[1].bunker)

\* score 35 under thresholds {35,60,80,92} with the bunker enabled was
\* evaluated to soft
C6_Witness ==
  /\ Evaluated /\ probe.score = 35 /\ probe.out = "soft"
  /\ probe.cfg # None /\ probe.cfg[1].bunker /\ probe.cfg[1].hasTh
  /\ probe.cfg[1].th = DEFAULT_THRESHOLDS

\* ------------------------------------------------------------------ C7
\* C7: for a fixed policy without kill-switch or monitor override, any
\* thresholds and bunker enabled or not, a higher score never gets a
\* decision of lower severity than a lower score.
C7_EvaluateRiskMonotonic ==
  (Evaluated /\ NoOverride(probe.cfg)) =>
    \A s2 \in (probe.score + 1)..MaxScore :
      Severity(evaluateRisk(Pts(s2), probe.cfg)) >= Severity(probe.out)

\* a policy with unordered thresholds (soft below allow) was evaluated at a
\* score between the two and got a decision above allow
C7_Witness ==
  /\ Evaluated /\ NoOverride(probe.cfg) /\ probe.cfg # None /\ probe.cfg[1].hasTh
  /\ probe.cfg[1].th.soft < probe.cfg[1].th.allow
  /\ probe.score >= probe.cfg[1].th.soft /\ probe.score < probe.cfg[1].th.challenge
  /\ probe.out = "challenge"

\* ------------------------------------------------------------------ C9
\* C9: when the resolved policy has killSwitch = true, boot sets ready,
\* exposes the status and never starts the decision pipeline: no risk
\* assessment, no validation request, no soft mitigation, challenge, bunker
\* gate or block, and state.lastDecision stays null.
C9_KillSwitchStopsBoot ==
  (state.remoteConfig # None /\ state.remoteConfig[1].kill) =>
    /\ bootPc = "killed"
    /\ state.ready /\ status.set /\ status.ready
    /\ state.lastDecision = "null" /\ status.lastDecision = "null"
    /\ \A i \in Calls : calls[i].pc = "idle"
    /\ effects.assess = 0 /\ effects.validate = 0 /\ effects.soft = 0
    /\ effects.challenge = 0 /\ effects.gate = 0 /\ effects.block = 0

\* boot has resolved a kill-switch policy fetched from the network
C9_Witness ==
  /\ bootPc = "killed" /\ state.remoteConfig = Some(P_kill)
  /\ fetch.via = "network" /\ status.set

\* ----------------------------------------------------------------- C10
\* a policy document the pipeline can be run with: thresholds present and
\* a mode that is one of the three mode strings
UsablePolicy(p) ==
  /\ p.hasTh /\ p.mode \in Modes
  /\ \A f \in {"allow", "soft", "challenge", "bunker"} : p.th[f] \in 0..MaxScore

FetchStep == fetch' # fetch /\ fetch'.pc # "idle"

\* the cached copies a call made now would find fresh
FreshInMemory == memoryCache # None /\ isFresh(memoryCache[1], now)
PersistedNow == readLocalCache(localStorage, config', storageOk)
FreshPersisted == PersistedNow # None /\ isFresh(PersistedNow[1], now)

\* the part of the resolution order that the code and the claim agree on:
\* a fresh in-memory copy wins, then a fresh persisted copy; the config
\* request is issued only when neither exists; a stale copy is returned
\* only after the request failed
ResolutionOrder ==
  /\ fetch'.via = "memory" => FreshInMemory /\ fetch'.result = Some(memoryCache[1].config)
  /\ fetch'.via = "local"
       => ~FreshInMemory /\ FreshPersisted /\ fetch'.result = Some(PersistedNow[1].config)
  /\ fetch'.pc = "awaitNet" => ~FreshInMemory /\ ~FreshPersisted
  /\ fetch'.via = "network" => fetch.pc = "awaitNet" /\ fetch'.err = "none"
  /\ fetch'.via = "stale"
       => /\ fetch.pc = "awaitNet" /\ fetch'.err # "none" /\ fetch.local # None
          /\ fetch'.result = Some(fetch.local[1].config)

\* C11 as stated: the resolution order, and the hard-coded defaults are
\* returned after a failed fetch only when no cached copy exists, neither a
\* stale in-memory one nor a stale persisted one.
C11_DefaultsOnlyWithoutAnyCopy ==
  [][FetchStep =>
       /\ ResolutionOrder
       /\ fetch'.via = "defaults"
            => /\ fetch.pc = "awaitNet" /\ fetch'.err # "none"
               /\ fetch.local = None /\ memoryCache = None]_vars

\* C11 amended: the resolution order, and the hard-coded defaults are
\* returned after a failed fetch exactly when the call read no persisted
\* copy; a stale in-memory copy is not consulted.
C11_DefaultsOnlyWithoutPersistedCopy ==
  [][FetchStep =>
       /\ ResolutionOrder
       /\ fetch'.via = "defaults"
            => fetch.pc = "awaitNet" /\ fetch'.err # "none" /\ fetch.local = None
       /\ (fetch.pc = "awaitNet" /\ fetch'.err # "none" /\ fetch.local = None)
            => fetch'.via = "defaults"]_vars

\* a failed config request has been answered with the hard-coded defaults
\* while a stale in-memory copy existed
C11_Witness ==
  /\ fetch.pc = "done" /\ fetch.via = "defaults" /\ fetch.err # "none"
  /\ memoryCache # None /\ ~isFresh(memoryCache[1], now)

\* ----------------------------------------------------------------- C12
\* the script attributes a page was loaded with, read back from state.config:
\* data-tenant sets tenantId, data-widget alone leaves it empty (init.ts 59-99)
scriptAttributes(cfg) == IF cfg.tenantId # "" THEN TenantScript ELSE WidgetScript

\* C12: after a successful network fetch at time T the in-memory cache
\* holds the fetched policy with fetchedAt = T, and, when localStorage took
\* the write (some key holds the entry), the persisted entry is the one that
\* a later page load with the same script attributes reads, so that such a
\* load is served from the persisted cache without a network request.
C12_FetchRefreshesBothTiers ==
  [][(fetch.pc = "awaitNet" /\ fetch'.pc = "done" /\ fetch'.via = "network") =>
       LET entry == CacheEntry(fetch'.result[1], now)
           later == initConfig(scriptAttributes(config))
       IN /\ memoryCache' = Some(entry)
          /\ (\E k \in Keys : localStorage'[k] = Item("entry", entry.config, now)) =>
               /\ readLocalCache(localStorage', later, TRUE) = Some(entry)
               /\ fetchBegin("boot", None, localStorage', later, TRUE).fetch.via = "local"]_vars

\* ----------------------------------------------------------------- C13
\* an entry's age is below its own ttlSeconds
WithinOwnTtl(entry) == now - entry.fetchedAt < entry.config.ttl

\* C13: a cached entry, in memory or persisted, is returned without a
\* network request exactly while now - fetchedAt is below the entry's own
\* ttlSeconds, for every ttlSeconds value, 0 included.
C13_FreshExactlyWithinOwnTtl ==
  [][FetchStep =>
       /\ fetch'.via \in {"memory", "local"}
            => memoryCache' # None /\ WithinOwnTtl(memoryCache'[1])
       /\ fetch'.pc = "awaitNet"
            => /\ ~(memoryCache # None /\ WithinOwnTtl(memoryCache[1]))
               /\ ~(PersistedNow # None /\ WithinOwnTtl(PersistedNow[1]))]_vars

\* ----------------------------------------------------------------- C14
\* the config request ends with a body that fails the shape validation
ShapeFailure == fetch.pc = "awaitNet" /\ fetch'.pc = "done" /\ fetch'.err = "shape"

\* no tier holds, and no call has returned, a document without thresholds
\* or without a string mode
NoMalformedPolicyKept ==
  /\ memoryCache' # None => UsablePolicy(memoryCache'[1].config)
  /\ \A k \in Keys : localStorage'[k].kind = "entry" => UsablePolicy(localStorage'[k].config)
  /\ fetch'.result # None => UsablePolicy(fetch'.result[1])

\* C14 as stated: a response without thresholds or without a string mode
\* is never returned and never cached, and both cache tiers keep the
\* content they had before the fetch.
C14_MalformedResponseLeavesTiers ==
  [][/\ NoMalformedPolicyKept
     /\ ShapeFailure =>
          /\ fetch'.via \in {"stale", "defaults"}
          /\ localStorage' = localStorage
          /\ memoryCache' = memoryCache]_vars

\* C14 amended: a response without thresholds or without a string mode is
\* never returned and never cached; the persisted tier keeps its content,
\* and the in-memory tier keeps its content or takes the stale persisted
\* entry whose policy the call returns.
C14_MalformedResponseNeverKept ==
  [][/\ NoMalformedPolicyKept
     /\ ShapeFailure =>
          /\ fetch'.via \in {"stale", "defaults"}
          /\ localStorage' = localStorage
          /\ IF fetch.local # None
             THEN memoryCache' = fetch.local /\ fetch'.result = Some(fetch.local[1].config)
             ELSE memoryCache' = memoryCache]_vars

\* a malformed response has been answered with the stale persisted copy,
\* which is now the in-memory entry
C14_Witness ==
  /\ fetch.pc = "done" /\ fetch.err = "shape" /\ fetch.via = "stale"
  /\ memoryCache # None /\ memoryCache[1].config = fetch.result[1]

\* ----------------------------------------------------------------- C15
StrictlyIncreasing(th) ==
  th.allow < th.soft /\ th.soft < th.challenge /\ th.challenge < th.bunker

\* C15: every policy the policy store returns, and every policy the rule
\* evaluator and the hysteresis step run with, has strictly increasing
\* thresholds; a policy whose thresholds are not is replaced by the defaults.
C15_ThresholdsStrictlyIncreasing ==
  /\ fetch.result # None
       => fetch.result[1].hasTh /\ StrictlyIncreasing(fetch.result[1].th)
  /\ state.remoteConfig # None
       => state.remoteConfig[1].hasTh /\ StrictlyIncreasing(state.remoteConfig[1].th)

\* ----------------------------------------------------------------- C16
\* C16: whenever the policy store falls back to the hard-coded defaults the
\* returned policy has mode adaptive, thresholds {35,60,80,92}, bunker
\* disabled, killSwitch false and timeouts 800 / 1200 / 400 ms.
C16_DefaultsAreTheDocumentedOnes ==
  (fetch.pc = "done" /\ fetch.via \in {"defaults", "no_id"}) =>
    /\ fetch.result # None
    /\ fetch.result[1].mode = "adaptive"
    /\ fetch.result[1].hasTh
    /\ fetch.result[1].th = [allow |-> 35, soft |-> 60, challenge |-> 80, bunker |-> 92]
    /\ ~fetch.result[1].bunker
    /\ ~fetch.result[1].kill
    /\ fetch.result[1].timeouts = [configMs |-> 800, validateMs |-> 1200, pingMs |-> 400]

\* ----------------------------------------------------------------- C17
\* One network operation of the HTTP layer (safeFetch, and the inlined copy
\* in fetchRemoteConfig), with the passage of time.  The clock counts units
\* of 400 ms; `probe` holds the operation:
\*   op       which caller: config | validate | ping
\*   timeout  the timeoutMs the caller passed
\*   pc       headers: awaiting fetch();  body: awaiting res.json();  done
\*   timer    the abort timer is armed
\*   elapsed  clock units since the call
\*   result   none | value | null   (null: `return null` / the catch path)
MaxWait == 14

Ms(units) == units * 400

NetOps == {"config", "validate", "ping"}

\* the timeouts a caller can pass: the two stores' defaults
opTimeout(op, cfg) ==
  IF op = "config" THEN cfg.timeouts.configMs
  ELSE IF op = "validate" THEN cfg.timeouts.validateMs
  ELSE cfg.timeouts.pingMs

IdleNet ==
  [fn |-> "safeFetch", op |-> "none", timeout |-> 0, pc |-> "idle",
   timer |-> FALSE, elapsed |-> 0, result |-> "none"]

NetDone(p, result) == [p EXCEPT !.pc = "done", !.timer = FALSE, !.result = result]

\* what happens when fetch() resolves with the response headers
safeFetch(p, ok, noContent) ==
  LET cleared == [p EXCEPT !.timer = FALSE]
  IN  IF ~ok \/ noContent THEN NetDone(cleared, "null")
      ELSE [cleared EXCEPT !.pc = "body"]

InitNet ==
  /\ decisionSrc = "base" /\ configSrc \in {"tenant", "widget"}
  /\ now = StartTime /\ ticks = 0 /\ loads = 1 /\ storageOk = TRUE
  /\ localStorage = EmptyStorage /\ whitelist = None /\ memoryCache = None
  /\ config = [widgetPublicId |-> "W1", tenantId |-> ""]
  /\ state = FreshState /\ bootPc = "init" /\ fetch = IdleFetch
  /\ calls = [i \in 1..MaxCalls |-> IdleCall]
  /\ effects = NoEffects /\ status = NoStatus
  /\ probe = IdleNet

NetUnchanged == UNCHANGED <<envVars, storeVars, sessionVars>>

\* the call: new AbortController, setTimeout(abort, timeout), fetch(...)
SafeFetchCall ==
  /\ probe.pc \in {"idle", "done"}
  /\ \E op \in NetOps :
       probe' = [IdleNet EXCEPT !.op = op, !.pc = "headers", !.timer = TRUE,
                                !.timeout = opTimeout(op, SAFE_DEFAULTS(configSrc))]
  /\ NetUnchanged

\* time passes; an armed timer fires at its deadline, not later
NetWait ==
  /\ probe.pc \in {"headers", "body"}
  /\ probe.elapsed < MaxWait
  /\ probe.timer => Ms(probe.elapsed + 1) <= probe.timeout
  /\ probe' = [probe EXCEPT !.elapsed = @ + 1]
  /\ NetUnchanged

\* the timer callback: controller.abort() rejects the pending await
TimerFires ==
  /\ probe.pc \in {"headers", "body"}
  /\ probe.timer /\ Ms(probe.elapsed) >= probe.timeout
  /\ probe' = NetDone(probe, "null")
  /\ NetUnchanged

HeadersArrive ==
  /\ probe.pc = "headers"
  /\ \E ok \in BOOLEAN, noContent \in BOOLEAN :
       probe' = safeFetch(probe, ok, noContent)
  /\ NetUnchanged

\* fetch() rejects (network error)
NetError ==
  /\ probe.pc = "headers"
  /\ probe' = NetDone(probe, "null")
  /\ NetUnchanged

\* res.json() settles: a value, or a parse error caught as null
BodyArrives ==
  /\ probe.pc = "body"
  /\ \E parsed \in BOOLEAN :
       probe' = NetDone(probe, IF parsed THEN "value" ELSE "null")
  /\ NetUnchanged

NextNet ==
  \/ SafeFetchCall
  \/ NetWait
  \/ TimerFires
  \/ HeadersArrive
  \/ NetError
  \/ BodyArrives

SpecNet == InitNet /\ [][NextNet]_vars

\* C17: no network operation stays pending past its configured timeout
\* (headers and body included): at the deadline it is aborted and resolves
\* to "no result".
C17_NoCallPendingPastDeadline ==
  (probe.fn = "safeFetch" /\ probe.pc \in {"headers", "body"}) =>
    Ms(probe.elapsed) <= probe.timeout

\* ----------------------------------------------------------------- C18
\* C18: a network unavailability (timeout, abort, non-2xx) of the policy
\* fetch or of the validation call is surfaced: state.degraded is true by the
\* time boot completes, also when the store recovered from a stale cache or
\* from the defaults.
PolicyFetchUnavailable == fetch.by = "boot" /\ fetch.err = "network"

ValidationUnavailable == calls[1].srv = "unreachable"

C18_UnavailabilitySurfacedAsDegraded ==
  (bootPc = "complete" /\ (PolicyFetchUnavailable \/ ValidationUnavailable)) =>
    state.degraded

\* ----------------------------------------------------------------- C19
\* C19: the pipeline runs at most once per session also under overlap: a
\* runDecision invoked while an earlier invocation is still suspended does
\* not assess risk again and sends no second validation request.
Overlapping(i) ==
  /\ calls[i].pc # "idle" /\ ~calls[i].after
  /\ \E j \in 1..(i - 1) : calls[j].scored

C19_PipelineOnceUnderOverlap ==
  \A i \in 2..MaxCalls : Overlapping(i) => ~calls[i].scored

\* ----------------------------------------------------------------- C20
\* C20: when the final decision is challenge or hard_challenge the outcome of
\* the verification decides the run: on failure the block action is
\* executed, state.lastDecision becomes block, runDecision returns block and
\* the failure leaves sessionValidated as it was (false for the run's own
\* session); on success sessionValidated becomes true and the returned
\* decision stays challenge or hard_challenge.
ChallengeSettles(i) == calls[i].pc = "awaitChallenge" /\ calls'[i].pc = "done"

ChallengeFailed(i) == ChallengeSettles(i) /\ calls'[i].path = "challenge_failed"

ChallengeOutcomeDecides(i) ==
  /\ calls[i].pc = "awaitChallenge" => calls[i].decision \in {"challenge", "hard_challenge"}
  /\ ChallengeFailed(i) =>
       /\ calls'[i].ret = "block"
       /\ state'.lastDecision = "block"
       /\ effects'.block = Bump(effects, "block").block
       /\ state'.sessionValidated = state.sessionValidated
  /\ (ChallengeSettles(i) /\ ~ChallengeFailed(i)) =>
       /\ state'.sessionValidated
       /\ calls'[i].ret = calls[i].decision
       /\ state'.lastDecision = state.lastDecision

P_bunker_ttl == [P_adaptive_bunker EXCEPT !.bunkerTtl = Some(400)]
P_bunker_nottl == [P_adaptive_bunker EXCEPT !.bunkerTtl = None]
BunkerPolicies == {P_bunker_ttl, P_bunker_nottl}

InitBunker ==
  /\ decisionSrc \in {"base", "hardened"}
  /\ configSrc = "widget"
  /\ now = StartTime /\ ticks = 0 /\ loads = 1
  /\ storageOk = TRUE
  /\ localStorage = EmptyStorage
  /\ whitelist = None
  /\ memoryCache = None
  /\ config = initConfig(WidgetScript)
  /\ \E p \in BunkerPolicies : state = [FreshState EXCEPT !.remoteConfig = Some(p)]
  /\ bootPc = "pipeline"
  /\ fetch = IdleFetch
  /\ calls = [i \in 1..MaxCalls |-> IdleCall]
  /\ effects = NoEffects
  /\ status = NoStatus
  /\ probe = NoProbe

\* the page is loaded again in the same tab, the same policy is resolved
PageReload ==
  /\ loads < MaxLoads
  /\ loads' = loads + 1
  /\ state' = [FreshState EXCEPT !.remoteConfig = state.remoteConfig]
  /\ calls' = [i \in 1..MaxCalls |-> IdleCall]
  /\ effects' = NoEffects
  /\ UNCHANGED <<decisionSrc, configSrc, now, ticks, storageOk, storeVars,
                 whitelist, bootPc, status, probe>>

\* each page load makes boot's one runDecision() call
NextBunker ==
  \/ RunDecisionStart(1)
  \/ ValidateReturn(1)
  \/ SoftDone(1)
  \/ ChallengeSubmit(1)
  \/ BunkerAttempt(1)
  \/ Tick
  \/ PageReload

SpecBunker == InitBunker /\ [][NextBunker]_vars

\* ----------------------------------------------------------------- C21
\* C21: a failed bunker verification never turns the decision into block and
\* never completes the gate: the gate stays up for a retry after any failed
\* attempt, executeBunker resolves only on a successful verification or a
\* whitelist hit, and when it resolves sessionValidated is true and the
\* decision is bunker.
GateUp == calls[1].pc = "awaitBunker"

GateLeft == GateUp /\ calls'[1].pc # "awaitBunker" /\ loads' = loads

GateStepKeepsGate ==
  (GateUp /\ loads' = loads) =>
    /\ calls'[1].pc \in {"awaitBunker", "done"}
    /\ effects'.block = effects.block
    /\ state'.lastDecision = state.lastDecision
    /\ calls'[1].pc = "awaitBunker" =>
         /\ state' = state /\ whitelist' = whitelist
         /\ calls'[1].retryShown \/ calls' = calls

GateResolvesValidated ==
  /\ GateLeft =>
       /\ calls'[1].ret = "bunker"
       /\ state'.sessionValidated
       /\ whitelist' # None
  /\ (calls'[1].pc = "done" /\ calls'[1].ret = "bunker") => state'.sessionValidated

C21_FailedBunkerNeverBlocks ==
  [][GateStepKeepsGate /\ GateResolvesValidated]_vars

\* the gate after a failed attempt: still up, nothing blocked, not validated
C21_Witness ==
  /\ GateUp /\ calls[1].retryShown
  /\ ~state.sessionValidated /\ effects.block = 0
  /\ state.lastDecision = "bunker"

\* ----------------------------------------------------------------- C22
\* C22: the whitelist is checked before any gate is shown: after a successful
\* bunker verification at time T, a later bunker execution in the same
\* browsing session passes immediately, without a gate, if and only if it
\* happens before T + bunkerPolicy.ttlSeconds; an expired entry is removed
\* and the gate is presented again.
PolicyBunkerTtl ==
  IF state.remoteConfig[1].bunkerTtl = None THEN 900
  ELSE state.remoteConfig[1].bunkerTtl[1]

\* the gate is passed at T = now: the entry expires at T + ttlSeconds
VerifiedAt ==
  (GateUp /\ calls'[1].pc = "done") =>
    whitelist' # None /\ whitelist'[1].expiresAt = now + PolicyBunkerTtl

\* this step runs executeBunker
BunkerExecuted ==
  /\ calls[1].pc = "awaitValidate"
  /\ \/ calls'[1].pc = "awaitBunker"
     \/ calls'[1].pc = "done" /\ calls'[1].ret = "bunker"

PassedWithoutGate ==
  /\ calls'[1].pc = "done" /\ calls'[1].ret = "bunker"
  /\ effects'.gate = effects.gate
  /\ state'.sessionValidated

GatePresented ==
  /\ calls'[1].pc = "awaitBunker"
  /\ effects'.gate = effects.gate + 1
  /\ whitelist' = None

WhitelistDecides ==
  BunkerExecuted =>
    IF whitelist # None /\ now < whitelist[1].expiresAt
    THEN PassedWithoutGate /\ whitelist' = whitelist
    ELSE GatePresented

Honored(i, resp) ==
  LET o == afterValidate(state, calls[i], effects, whitelist, resp)
  IN  /\ o.st.lastDecision = resp.action
      /\ o.call.path = IF resp.action = "block" THEN "server_block" ELSE "server_bunker"
      /\ resp.action = "block" =>
           o.call.pc = "done" /\ o.call.ret = "block" /\ o.efx.block = effects.block + 1
      /\ resp.action = "bunker" =>
           \/ o.call.pc = "awaitBunker" /\ o.efx.gate = effects.gate + 1
           \/ o.call.pc = "done" /\ o.call.ret = "bunker"

ServerInstructions == {r \in ServerResponses : r.action \in {"block", "bunker"}}

C32_ValidatedImpliesPassingDecision ==
  state.sessionValidated =>
    state.lastDecision \in {"allow", "soft", "challenge", "hard_challenge", "bunker"}

\* ----------------------------------------------------------------- C33
\* The stage an invocation is in, read from its position: before the call,
\* assessment done and validation request in flight, action running (after
\* combination, rule evaluation, hysteresis and the store of the decision),
\* returned.
InFlight(call) == call.pc \in {"awaitValidate", "awaitSoft", "awaitChallenge", "awaitBunker"}

ActionRunning(call) == call.pc \in {"awaitSoft", "awaitChallenge", "awaitBunker"}

PolicyResolvedBeforeStart(i) ==
  (calls[i].pc = "idle" /\ calls'[i].pc # "idle") =>
    bootPc \in {"pipeline", "complete"} /\ fetch.pc # "awaitNet"

AssessBeforeValidate(i) ==
  calls'[i].pc = "awaitValidate" => calls'[i].scored /\ calls'[i].srv = "none"

ValidateBeforeAction(i) ==
  (ActionRunning(calls'[i]) /\ ~ActionRunning(calls[i])) =>
    \/ calls[i].pc = "awaitValidate" /\ calls'[i].srv # "none"
    \/ calls[i].pc = "idle" /\ calls'[i].path \in {"catch", "whitelist"}

StoredBeforeAction(i) ==
  (ActionRunning(calls'[i]) /\ ~ActionRunning(calls[i])) =>
    state'.lastDecision =
      CASE calls'[i].pc = "awaitSoft" -> "soft"
        [] calls'[i].pc = "awaitBunker" -> "bunker"
        [] calls'[i].pc = "awaitChallenge" ->
             IF calls'[i].decision = "hard_challenge" THEN "hard_challenge"
             ELSE "challenge"

StagesInOrder ==
  \A i \in 1..MaxCalls :
    /\ PolicyResolvedBeforeStart(i)
    /\ AssessBeforeValidate(i)
    /\ ValidateBeforeAction(i)
    /\ StoredBeforeAction(i)

OneStageAtATime == Cardinality({i \in 1..MaxCalls : InFlight(calls[i])}) <= 1

\* C33: in every run the stages happen in a strict order: the policy is
\* resolved before runDecision starts, the assessment precedes the validation
\* request, which precedes combination, rule evaluation, hysteresis and the
\* action; the decision is stored before its action starts; and no two
\* stages of one session are in progress at the same time.
C33_StagesStrictlyOrdered == [][StagesInOrder /\ OneStageAtATime']_vars

\* ----------------------------------------------------------------- C34
\* The entry of a part_007 invocation on a session that is not validated.
Starts(i) ==
  /\ decisionSrc = "hardened" /\ ~state.sessionValidated
  /\ calls[i].pc = "idle" /\ calls'[i].pc # "idle"

ResetDue ==
  /\ state.bunkerActive
  /\ state.remoteConfig # None => state.remoteConfig[1].mode # "enforce"

\* the smoothing accumulator after an assessment that began from prev (it is
\* untouched when the assessment itself threw)
AssessedFrom(i, prev) ==
  IF calls'[i].scored
  THEN \E c \in ClientScores :
         state'.emaScore = (IF prev = 0 THEN Pts(c) ELSE clamp((3 * Pts(c) + 7 * prev) \div 10))
  ELSE state'.emaScore = prev

\* C34: when runDecision is called on a session that is not validated, the
\* mode is not enforce and bunkerActive is true, then before any risk
\* assessment bunkerActive becomes false, sessionToken null, emaScore 0 (the
\* assessment that follows starts from 0) and the bunker whitelist is
\* cleared; when the mode is enforce or bunkerActive is false none of the
\* four is changed by this step.
C34_BunkerResetOnEntry ==
  [][\A i \in 1..MaxCalls :
       Starts(i) =>
         IF ResetDue
         THEN /\ ~state'.bunkerActive /\ state'.sessionToken = ""
              /\ whitelist' = None
              /\ AssessedFrom(i, 0)
         ELSE /\ state'.bunkerActive = state.bunkerActive
              /\ state'.sessionToken = state.sessionToken
              /\ whitelist' = whitelist
              /\ AssessedFrom(i, state.emaScore)]_vars

\* an invocation that entered while the gate of an earlier one was up: the
\* bunker flag and the token that the earlier one had stored are gone
C34_Witness ==
  /\ decisionSrc = "hardened"
  /\ calls[1].pc = "awaitBunker" /\ calls[1].srv = "reached"
  /\ calls[2].pc = "awaitValidate"
  /\ state.lastDecision = "bunker" /\ state.lastValidation = "allow"
  /\ ~state.bunkerActive /\ state.sessionToken = "" /\ whitelist = None

\* ------------------------------------------------- the scoring functions
\* The pure helpers of the pipeline, each applied to inputs drawn from a
\* grid: `probe` holds the function's name, its arguments and its result.
ScoreGrid == {Pts(k) : k \in 0..MaxScore}

PreviousDecisions == Decisions \cup {"null"}

HystThresholds == {[DEFAULT_THRESHOLDS EXCEPT !.challenge = c] : c \in ThresholdGrid \cup {97}}

HystPolicies ==
  {None, Some(Policy("adaptive", FALSE, DEFAULT_THRESHOLDS, FALSE, FALSE, 300, TRUE))}
  \cup {Some(Policy("adaptive", TRUE, th, FALSE, FALSE, 300, TRUE)) : th \in HystThresholds}

InitHysteresis ==
  \E last \in PreviousDecisions, d \in Decisions, sc \in ScoreGrid, cfg \in HystPolicies :
    probe = [fn |-> "hysteresis", pc |-> "input", last |-> last, d |-> d,
             score |-> sc, cfg |-> cfg, out |-> "null"]

InitScoring ==
  /\ decisionSrc = "hardened" /\ configSrc = "widget"
  /\ now = StartTime /\ ticks = 0 /\ loads = 1 /\ storageOk = TRUE
  /\ localStorage = EmptyStorage /\ whitelist = None /\ memoryCache = None
  /\ config = [widgetPublicId |-> "W1", tenantId |-> ""]
  /\ state = FreshState /\ bootPc = "init" /\ fetch = IdleFetch
  /\ calls = [i \in 1..MaxCalls |-> IdleCall]
  /\ effects = NoEffects /\ status = NoStatus
  /\ InitHysteresis

HysteresisCall ==
  /\ probe.fn = "hysteresis" /\ probe.pc = "input"
  /\ probe' = [probe EXCEPT !.pc = "done",
                 !.out = hysteresis(probe.last, probe.d, probe.score, probe.cfg)]
  /\ UNCHANGED <<envVars, storeVars, sessionVars>>

NextScoring ==
  \/ HysteresisCall

SpecScoring == InitScoring /\ [][NextScoring]_vars

\* ----------------------------------------------------------------- C24
\* C24: hysteresis holds the decision at soft when the previous decision is
\* allow and the rules yield challenge or hard_challenge with a final score
\* below thresholds.challenge + 5, or the previous decision is soft and the
\* rules yield challenge or hard_challenge with a final score below
\* thresholds.challenge + 3; in every other case the evaluated decision is
\* left as it is.
Escalates(d) == d \in {"challenge", "hard_challenge"}

HeldAtSoft(last, d, sc, cfg) ==
  /\ cfg # None /\ cfg[1].hasTh
  /\ Escalates(d)
  /\ \/ last = "allow" /\ sc < Pts(cfg[1].th.challenge) + Pts(5)
     \/ last = "soft" /\ sc < Pts(cfg[1].th.challenge) + Pts(3)

C24_HysteresisOnlyHoldsEscalationAtSoft ==
  (probe.fn = "hysteresis" /\ probe.pc = "done") =>
    /\ HeldAtSoft(probe.last, probe.d, probe.score, probe.cfg) => probe.out = "soft"
    /\ ~HeldAtSoft(probe.last, probe.d, probe.score, probe.cfg) => probe.out = probe.d
    /\ ~Escalates(probe.d) => probe.out = probe.d

\* previous decision soft, rules say hard_challenge, score between
\* challenge + 3 and challenge + 5: not held
C24_Witness ==
  /\ probe.fn = "hysteresis" /\ probe.pc = "done"
  /\ probe.last = "soft" /\ probe.d = "hard_challenge"
  /\ probe.cfg # None /\ probe.cfg[1].hasTh
  /\ probe.score >= Pts(probe.cfg[1].th.challenge + 3)
  /\ probe.score < Pts(probe.cfg[1].th.challenge + 5)
  /\ probe.out = "hard_challenge"

\* ------------------------------------------------------ the rate limiter
\* rateAllow and its module-level `buckets` map, with a clock in steps of
\* 10 s.  `probe` holds:
\*   buckets  key -> None | Some([count, resetAt])
\*   t        Date.now() in ms
\*   k        clock steps taken
\*   key, ret the last call and what it returned ("none" before any call)
\*   lastOk   key -> time of the last call that returned true, None if none
MaxRateSteps == 8

RateKeys == {"ping", "test"}

\* the callers' arguments: sendPing uses ('ping', 1, 30_000)
RateMax(key) == IF key = "ping" THEN 1 ELSE 2
RateWindow(key) == IF key = "ping" THEN 30000 ELSE 60000

rateAllow_StrictReset(buckets, key, max, windowMs, t) ==
  LET old == buckets[key]
      bucket == IF old = None \/ t > old[1].resetAt
                THEN [count |-> 0, resetAt |-> t + windowMs]
                ELSE old[1]
      opened == [buckets EXCEPT ![key] = Some(bucket)]
  IN  IF bucket.count >= max
      THEN [buckets |-> opened, ret |-> FALSE]
      ELSE [buckets |-> [opened EXCEPT ![key] = Some([bucket EXCEPT !.count = @ + 1])],
            ret |-> TRUE]

rateAllow(buckets, key, max, windowMs, t) ==
  LET old == buckets[key]
      bucket == IF old = None \/ t >= old[1].resetAt
                THEN [count |-> 0, resetAt |-> t + windowMs]
                ELSE old[1]
      opened == [buckets EXCEPT ![key] = Some(bucket)]
  IN  IF bucket.count >= max
      THEN [buckets |-> opened, ret |-> FALSE]
      ELSE [buckets |-> [opened EXCEPT ![key] = Some([bucket EXCEPT !.count = @ + 1])],
            ret |-> TRUE]

InitRate ==
  /\ decisionSrc = "hardened" /\ configSrc = "widget"
  /\ now = StartTime /\ ticks = 0 /\ loads = 1 /\ storageOk = TRUE
  /\ localStorage = EmptyStorage /\ whitelist = None /\ memoryCache = None
  /\ config = [widgetPublicId |-> "W1", tenantId |-> ""]
  /\ state = FreshState /\ bootPc = "init" /\ fetch = IdleFetch
  /\ calls = [i \in 1..MaxCalls |-> IdleCall]
  /\ effects = NoEffects /\ status = NoStatus
  /\ probe = [fn |-> "rateAllow", buckets |-> [key \in RateKeys |-> None],
              t |-> 0, k |-> 0, key |-> "none", ret |-> FALSE,
              lastOk |-> [key \in RateKeys |-> None]]

RateAllowCall ==
  /\ probe.fn = "rateAllow"
  /\ \E key \in RateKeys :
       LET r == rateAllow(probe.buckets, key, RateMax(key), RateWindow(key), probe.t)
       IN probe' = [probe EXCEPT !.buckets = r.buckets, !.key = key, !.ret = r.ret,
                                 !.lastOk[key] = IF r.ret THEN Some(probe.t) ELSE @]
  /\ UNCHANGED <<envVars, storeVars, sessionVars>>

RateClock ==
  /\ probe.fn = "rateAllow" /\ probe.k < MaxRateSteps
  /\ probe' = [probe EXCEPT !.k = @ + 1, !.t = @ + 10000, !.key = "none", !.ret = FALSE]
  /\ UNCHANGED <<envVars, storeVars, sessionVars>>

NextRate ==
  \/ RateAllowCall
  \/ RateClock

SpecRate == InitRate /\ [][NextRate]_vars

\* ----------------------------------------------------------------- C25
\* C25: the rate limiter is a fixed window per key: within a window at most
\* max calls return true, further calls return false and leave the bucket
\* unchanged, the first call at or after resetAt opens a new window with the
\* count reset, buckets of different keys do not affect each other; with
\* max = 1 and a window of 30 000 ms two accepted calls are at least 30 s
\* apart.
Called(key) == probe'.key = key /\ probe'.t = probe.t

WindowOpen(key) == probe.buckets[key] # None /\ probe.t < probe.buckets[key][1].resetAt

FixedWindow(key) ==
  Called(key) =>
    /\ \A other \in RateKeys \ {key} : probe'.buckets[other] = probe.buckets[other]
    /\ (WindowOpen(key) /\ probe.buckets[key][1].count >= RateMax(key)) =>
         ~probe'.ret /\ probe'.buckets[key] = probe.buckets[key]
    /\ (WindowOpen(key) /\ probe.buckets[key][1].count < RateMax(key)) =>
         /\ probe'.ret
         /\ probe'.buckets[key] =
              Some([probe.buckets[key][1] EXCEPT !.count = @ + 1])
    /\ ~WindowOpen(key) =>
         /\ probe'.ret
         /\ probe'.buckets[key] = Some([count |-> 1, resetAt |-> probe.t + RateWindow(key)])
    /\ probe'.buckets[key][1].count <= RateMax(key)
    /\ (probe'.ret /\ key = "ping" /\ probe.lastOk[key] # None) =>
         probe.t - probe.lastOk[key][1] >= 30000

C25_RateLimiterFixedWindow == [][\A key \in RateKeys : FixedWindow(key)]_vars

\* a second heartbeat 20 s after an accepted one: refused, bucket as it was
C25_Witness ==
  /\ probe.fn = "rateAllow" /\ probe.key = "ping" /\ ~probe.ret
  /\ probe.t = 20000 /\ probe.lastOk["ping"] = Some(0)
  /\ probe.buckets["ping"] = Some([count |-> 1, resetAt |-> 30000])

\* --------------------------------------- scoring in floating point
\* scoring.ts computes on JavaScript numbers: binary floating point, every
\* operation rounded to the nearest representable value, ties to even.  The
\* pipeline above carries scores in units of 10^-5 point, which is enough to
\* compare them with thresholds; the exact results of ema and weightedScore
\* need the rounding.  A number is [m, e], worth m * 2^e, with m = 0 or
\* 2^(SigBits-1) <= m < 2^SigBits.  SigBits is 13 where a JavaScript number
\* has 53: both are 1 modulo 4, the period of the binary expansion of 3/10,
\* so the literals 0.3, 0.25, 0.7 round the same way.
SigBits == 13

Pow2(n) == 2 ^ n

RECURSIVE BitLen(_)
BitLen(n) == IF n = 0 THEN 0 ELSE 1 + BitLen(n \div 2)

Fl(m, e) == [m |-> m, e |-> e]

FlZero == Fl(0, 0)

\* n * 2^e rounded to SigBits significant bits; sticky: the exact value is
\* a little above n * 2^e
FlRound(n, e, sticky) ==
  LET k == BitLen(n)
  IN  IF n = 0 THEN FlZero
      ELSE IF k <= SigBits THEN Fl(n * Pow2(SigBits - k), e - (SigBits - k))
      ELSE LET sh == k - SigBits
               q == n \div Pow2(sh)
               r == n % Pow2(sh)
               half == Pow2(sh - 1)
               up == r > half \/ (r = half /\ (sticky \/ q % 2 = 1))
               q1 == IF up THEN q + 1 ELSE q
           IN  IF q1 = Pow2(SigBits) THEN Fl(Pow2(SigBits - 1), e + sh + 1)
               ELSE Fl(q1, e + sh)

FlInt(n) == FlRound(n, 0, FALSE)

FlMul(x, y) == FlRound(x.m * y.m, x.e + y.e, FALSE)

\* both operands on the smaller exponent
FlAligned(x, y) ==
  LET e == IF x.e <= y.e THEN x.e ELSE y.e
  IN  [e |-> e, xm |-> x.m * Pow2(x.e - e), ym |-> y.m * Pow2(y.e - e)]

FlAdd(x, y) ==
  IF x.m = 0 THEN y ELSE IF y.m = 0 THEN x
  ELSE LET a == FlAligned(x, y) IN FlRound(a.xm + a.ym, a.e, FALSE)

\* x - y for x >= y
FlSub(x, y) ==
  IF y.m = 0 THEN x
  ELSE LET a == FlAligned(x, y) IN FlRound(a.xm - a.ym, a.e, FALSE)

\* x / y for y > 0: two guard bits and the remainder decide the rounding
FlDiv(x, y) ==
  IF x.m = 0 THEN FlZero
  ELSE LET n == x.m * Pow2(SigBits + 2)
       IN  FlRound(n \div y.m, x.e - y.e - (SigBits + 2), n % y.m # 0)

FlLess(x, y) ==
  IF y.m = 0 THEN FALSE ELSE IF x.m = 0 THEN TRUE
  ELSE LET a == FlAligned(x, y) IN a.xm < a.ym

\* scoring.ts clamp, on values that are not negative
FlClamp(v) == IF FlLess(FlInt(100), v) THEN FlInt(100) ELSE v

\* the literal 0.3 and the expression (1 - alpha)
Alpha == FlDiv(FlInt(3), FlInt(10))

\* scoring.ts ema
emaFl(prev, curr) ==
  IF prev.m = 0 THEN curr
  ELSE FlClamp(FlAdd(FlMul(Alpha, curr), FlMul(FlSub(FlInt(1), Alpha), prev)))

\* a decimal literal n/d as the number the parser makes of it
FlLit(lit) == FlDiv(FlInt(lit.n), FlInt(lit.d))

\* scoring.ts weightedScore over Object.keys(weights) in order; a component
\* is a number of points, a weight a literal
RECURSIVE weightedSum(_, _, _)
weightedSum(components, weights, i) ==
  IF i = 0 THEN [total |-> FlZero, wSum |-> FlZero]
  ELSE LET acc == weightedSum(components, weights, i - 1)
           w == FlLit(weights[i])
       IN  [total |-> FlAdd(acc.total, FlMul(FlClamp(FlInt(components[i])), w)),
            wSum |-> FlAdd(acc.wSum, w)]

weightedScore(components, weights) ==
  LET acc == weightedSum(components, weights, Len(weights))
  IN  IF acc.wSum.m > 0 THEN FlClamp(FlDiv(acc.total, acc.wSum)) ELSE FlZero

\* inputs: ema on whole points; three components with weights taken from
\* the literals of risk-engine.ts' kind
EmaIters == 13

WeightLiterals == {[n |-> 0, d |-> 1], [n |-> 1, d |-> 4], [n |-> 3, d |-> 10],
                   [n |-> 1, d |-> 2], [n |-> 1, d |-> 1]}

ComponentValues == {0, 50, 100, 130}

Triples(S) == {<<a, b, c>> : a \in S, b \in S, c \in S}

InitNumeric ==
  /\ decisionSrc = "hardened" /\ configSrc = "widget"
  /\ now = StartTime /\ ticks = 0 /\ loads = 1 /\ storageOk = TRUE
  /\ localStorage = EmptyStorage /\ whitelist = None /\ memoryCache = None
  /\ config = [widgetPublicId |-> "W1", tenantId |-> ""]
  /\ state = FreshState /\ bootPc = "init" /\ fetch = IdleFetch
  /\ calls = [i \in 1..MaxCalls |-> IdleCall]
  /\ effects = NoEffects /\ status = NoStatus
  /\ \/ \E prev \in 0..MaxScore, c \in 1..MaxScore :
          probe = [fn |-> "ema", prev |-> prev, c |-> c, x |-> FlInt(prev), n |-> 0]
     \/ \E components \in Triples(ComponentValues), weights \in Triples(WeightLiterals) :
          probe = [fn |-> "weightedScore", pc |-> "input", components |-> components,
                   weights |-> weights, out |-> FlZero]

\* state.emaScore = ema(state.emaScore, clientRisk.total, 0.3), the same
\* total again and again
EmaCall ==
  /\ probe.fn = "ema" /\ probe.n < EmaIters
  /\ probe' = [probe EXCEPT !.x = emaFl(probe.x, FlInt(probe.c)), !.n = @ + 1]
  /\ UNCHANGED <<envVars, storeVars, sessionVars>>

WeightedScoreCall ==
  /\ probe.fn = "weightedScore" /\ probe.pc = "input"
  /\ probe' = [probe EXCEPT !.pc = "done",
                            !.out = weightedScore(probe.components, probe.weights)]
  /\ UNCHANGED <<envVars, storeVars, sessionVars>>

NextNumeric ==
  \/ EmaCall
  \/ WeightedScoreCall

SpecNumeric == InitNumeric /\ [][NextNumeric]_vars

\* ----------------------------------------------------------------- C26
\* C26: ema(0, c) = c for every c in [0,100]; with the same input c repeated,
\* from any previous value in [0,100], the smoothed value converges to c
\* within a bounded number of iterations (less than one point away after
\* EmaIters applications), and c is a fixed point: ema(c, c) = c.
FlDistance(x, y) == IF FlLess(x, y) THEN FlSub(y, x) ELSE FlSub(x, y)

EmaStep ==
  (probe.fn = "ema" /\ probe'.n = probe.n + 1) =>
    /\ probe.x = FlZero => probe'.x = FlInt(probe.c)
    /\ probe.x = FlInt(probe.c) => probe'.x = FlInt(probe.c)
    /\ probe'.n = EmaIters => FlLess(FlDistance(probe'.x, FlInt(probe.c)), FlInt(1))

C26_EmaPassThroughAndConverges == [][EmaStep]_vars

\* ----------------------------------------------------------------- C27
\* C27: for every weight set with a positive sum and every component vector
\* weightedScore lies in [0,100]; it is 0 when all components are 0 and 100
\* when all components are 100.
PositiveSum(weights) == \E i \in 1..Len(weights) : weights[i].n > 0

AllComponents(components, v) == \A i \in 1..Len(components) : components[i] = v

C27_WeightedScoreRangeAndExtremes ==
  (probe.fn = "weightedScore" /\ probe.pc = "done" /\ PositiveSum(probe.weights)) =>
    /\ ~FlLess(FlInt(100), probe.out)
    /\ AllComponents(probe.components, 0) => probe.out = FlZero
    /\ AllComponents(probe.components, 100) => probe.out = FlInt(100)

\* ------------------------------------------------------- the API client
\* HCSApiClient.validate in its two versions:
\*   "open"    index.ts 356-396
\*   "closed"  index.ts 216-273, with the module's lastValidDecision
\* `probe` holds the client: src the version, last the cached allow
\* response, t the clock in ms, pc the call in flight, outcome how its
\* request ended, ret what validate() resolved with.
MaxApiSteps == 3

ApiSources == {"open", "closed"}

\* index.ts 200
DECISION_CACHE_TTL_MS == 60000

Response(valid, score, action, reason) ==
  [valid |-> valid, score |-> score, action |-> action, reason |-> reason]

\* bodies of a 2xx answer
ServerData ==
  {Response(TRUE, 10, "allow", "ok"), Response(FALSE, 90, "challenge", "suspicious")}

\* how the request ends: a 2xx answer with a JSON body, a 2xx answer whose
\* body does not parse, a non-2xx status, a rejected fetch, and the abort of
\* the 5 s timer, which only index.ts 222-223 arms
ApiOutcomes(src) ==
  {[kind |-> "ok", data |-> d] : d \in ServerData}
    \cup {[kind |-> k] : k \in {"badjson", "status", "network"}}
    \cup (IF src = "closed" THEN {[kind |-> "abort"]} ELSE {})

NoResponse == Response(FALSE, 0, "none", "none")

IdleApi(src) ==
  [fn |-> "validate", src |-> src, last |-> None, t |-> 0, k |-> 0,
   pc |-> "idle", outcome |-> "none", ret |-> NoResponse]

\* index.ts 216-273 and 356-396: validate() from the settled request on
validate(p, out) ==
  IF out.kind = "ok"
  THEN [p EXCEPT !.pc = "resolved", !.outcome = out.kind, !.ret = out.data,
                 !.last = IF p.src = "closed" /\ out.data.action = "allow"
                          THEN Some([response |-> out.data,
                                     expiry |-> p.t + DECISION_CACHE_TTL_MS])
                          ELSE @]
  ELSE [p EXCEPT !.pc = "resolved", !.outcome = out.kind,
                 !.ret = IF p.src = "open"
                         THEN Response(TRUE, 0, "allow", "api_error")
                         ELSE IF p.last # None /\ p.t < p.last[1].expiry
                         THEN [p.last[1].response EXCEPT !.reason = "cached_decision"]
                         ELSE Response(FALSE, 0, "challenge", "api_unavailable")]

InitApi ==
  /\ decisionSrc = "hardened" /\ configSrc = "widget"
  /\ now = StartTime /\ ticks = 0 /\ loads = 1 /\ storageOk = TRUE
  /\ localStorage = EmptyStorage /\ whitelist = None /\ memoryCache = None
  /\ config = [widgetPublicId |-> "", tenantId |-> "T1"]
  /\ state = FreshState /\ bootPc = "init" /\ fetch = IdleFetch
  /\ calls = [i \in 1..MaxCalls |-> IdleCall]
  /\ effects = NoEffects /\ status = NoStatus
  /\ \E src \in ApiSources : probe = IdleApi(src)

\* validate() is called and suspends at its fetch
ApiValidateCall ==
  /\ probe.fn = "validate" /\ probe.pc \in {"idle", "resolved"}
  /\ probe' = [probe EXCEPT !.pc = "awaitFetch", !.outcome = "none", !.ret = NoResponse]
  /\ UNCHANGED <<envVars, storeVars, sessionVars>>

\* the request ends and validate() runs to its return
ApiValidateSettles ==
  /\ probe.fn = "validate" /\ probe.pc = "awaitFetch"
  /\ \E out \in ApiOutcomes(probe.src) : probe' = validate(probe, out)
  /\ UNCHANGED <<envVars, storeVars, sessionVars>>

\* 30 s pass
ApiClock ==
  /\ probe.fn = "validate" /\ probe.k < MaxApiSteps
  /\ probe' = [probe EXCEPT !.k = @ + 1, !.t = @ + 30000]
  /\ UNCHANGED <<envVars, storeVars, sessionVars>>

NextApi ==
  \/ ApiValidateCall
  \/ ApiValidateSettles
  \/ ApiClock

SpecApi == InitApi /\ [][NextApi]_vars

\* ----------------------------------------------------------------- C30
\* C30: HCSApiClient.validate never rejects and fails open: when the request
\* ends in a non-2xx answer or a network error, validate() resolves with
\* valid = true, action 'allow' and reason 'api_error'.
C30_ValidateFailsOpen ==
  [][(probe.pc = "awaitFetch" /\ probe'.pc # "awaitFetch") =>
       /\ probe'.pc = "resolved"
       /\ probe'.outcome \in {"status", "network"} =>
            /\ probe'.ret.valid /\ probe'.ret.action = "allow"
            /\ probe'.ret.reason = "api_error"]_vars

\* ------------------------------------------- several API clients
\* Clients of the version at index.ts 216-273, one per tenant, on one page:
\* lastValidDecision (index.ts 201) is a variable of the module, so they
\* share it. `probe` holds the module: last the cached decision, t the clock
\* in ms, cl the clients with the call each has in flight; got is the time
\* at which the client last received a 2xx allow answer (None: never).
Tenants == {"T1", "T2"}

IdleClient == [pc |-> "idle", outcome |-> "none", ret |-> NoResponse, got |-> None]

IdleClients ==
  [fn |-> "clients", last |-> None, t |-> 0, k |-> 0,
   cl |-> [c \in Tenants |-> IdleClient]]

\* the module as client c's validate() sees it
ClientView(c) ==
  [fn |-> "validate", src |-> "closed", last |-> probe.last, t |-> probe.t,
   k |-> probe.k, pc |-> probe.cl[c].pc, outcome |-> probe.cl[c].outcome,
   ret |-> probe.cl[c].ret]

InitClients ==
  /\ decisionSrc = "hardened" /\ configSrc = "widget"
  /\ now = StartTime /\ ticks = 0 /\ loads = 1 /\ storageOk = TRUE
  /\ localStorage = EmptyStorage /\ whitelist = None /\ memoryCache = None
  /\ config = [widgetPublicId |-> "", tenantId |-> "T1"]
  /\ state = FreshState /\ bootPc = "init" /\ fetch = IdleFetch
  /\ calls = [i \in 1..MaxCalls |-> IdleCall]
  /\ effects = NoEffects /\ status = NoStatus
  /\ probe = IdleClients

\* client c's validate() is called and suspends at its fetch
ClientValidateCall(c) ==
  /\ probe.fn = "clients" /\ probe.cl[c].pc \in {"idle", "resolved"}
  /\ probe' = [probe EXCEPT !.cl[c].pc = "awaitFetch", !.cl[c].outcome = "none",
                            !.cl[c].ret = NoResponse]
  /\ UNCHANGED <<envVars, storeVars, sessionVars>>

\* client c's request ends and its validate() runs to its return
ClientValidateSettles(c) ==
  /\ probe.fn = "clients" /\ probe.cl[c].pc = "awaitFetch"
  /\ \E out \in ApiOutcomes("closed") :
       LET r == validate(ClientView(c), out)
           allowed == out.kind = "ok" /\ out.data.action = "allow"
       IN probe' = [probe EXCEPT
                      !.last = r.last,
                      !.cl[c] = [pc |-> r.pc, outcome |-> r.outcome, ret |-> r.ret,
                                 got |-> IF allowed THEN Some(probe.t) ELSE @.got]]
  /\ UNCHANGED <<envVars, storeVars, sessionVars>>

\* 30 s pass
ClientsClock ==
  /\ probe.fn = "clients" /\ probe.k < MaxApiSteps
  /\ probe' = [probe EXCEPT !.k = @ + 1, !.t = @ + 30000]
  /\ UNCHANGED <<envVars, storeVars, sessionVars>>

NextClients ==
  \/ \E c \in Tenants : ClientValidateCall(c)
  \/ \E c \in Tenants : ClientValidateSettles(c)
  \/ ClientsClock

SpecClients == InitClients /\ [][NextClients]_vars

\* ----------------------------------------------------------------- C39
\* client c's validate() returns in this step without a backend answer
FailsOver(c) ==
  /\ probe.cl[c].pc = "awaitFetch" /\ probe'.cl[c].pc = "resolved"
  /\ probe'.cl[c].outcome # "ok"

\* C39: when the fail-closed validate cannot reach the backend it returns
\* allow only from a decision that the same client (same tenant and API URL)
\* obtained through a successful allow response less than 60 s earlier; in
\* every other case it returns action challenge with valid = false.
C39_CachedAllowIsTheClientsOwn ==
  [][\A c \in Tenants :
       FailsOver(c) =>
         IF probe'.cl[c].ret.action = "allow"
         THEN /\ probe.cl[c].got # None
              /\ probe.t - probe.cl[c].got[1] < DECISION_CACHE_TTL_MS
         ELSE probe'.cl[c].ret.action = "challenge" /\ ~probe'.cl[c].ret.valid]_vars

\* ------------------------------------------- the behaviour collector
\* The collector in its two versions:
\*   "behavior"  src/src/widget-v3/telemetry/behavior.ts
\*   "engine"    src/src/widget-v3/risk/risk-engine.ts 334-634
\* Only the length of each buffer is kept. MAX is 500 in the source; the
\* model runs with a small capacity, every guard `length < MAX` unchanged.
\* `probe` holds the collector: len the buffers' lengths, keyDownTimes and
\* touchStartTimes the keys of the two maps, lastKeyUp and lastScrollTime
\* whether the timestamp is set, k the number of events so far.
MAX == 3

MaxEvents == 4

MaxTouches == 2

CollectorSources == {"behavior", "engine"}

Buffers ==
  {"microTimings", "mousePoints", "mouseVelocities", "mouseAccelerations",
   "mouseCurvatures", "keystrokeIntervals", "keystrokeDwells", "flightTimes",
   "scrollVelocities", "touchPressures", "touchRadii", "touchPoints",
   "touchVelocities", "touchAccelerations", "touchCurvatures",
   "touchHoldDurations", "accel", "gyro"}

KeyCodes == {"KeyA", "KeyB"}

\* array.push(x)
Push(c, buf) == [c EXCEPT !.len[buf] = @ + 1]

\* if (array.length < MAX) array.push(x)
PushBelowMax(c, buf) == IF c.len[buf] < MAX THEN Push(c, buf) ELSE c

RECURSIVE Times(_, _, _)
Times(n, buf, c) == IF n = 0 THEN c ELSE Times(n - 1, buf, Push(c, buf))

\* behavior.ts 174-180
recordActivity(c) == PushBelowMax(c, "microTimings")

\* behavior.ts 183-204 (and risk-engine.ts 577-603 per changed touch): one
\* point of a pointer track; dtPositive is dt > 0
trackPoint(c, points, vel, acc, curv, dtPositive) ==
  LET c1 == IF c.len[points] > 0 /\ dtPositive
            THEN LET v == PushBelowMax(c, vel)
                     a == IF v.len[vel] >= 2 THEN PushBelowMax(v, acc) ELSE v
                 IN IF c.len[points] >= 2 THEN PushBelowMax(a, curv) ELSE a
            ELSE c
  IN PushBelowMax(c1, points)

onMouseMove(c, dtPositive) ==
  trackPoint(recordActivity(c), "mousePoints", "mouseVelocities",
             "mouseAccelerations", "mouseCurvatures", dtPositive)

\* behavior.ts 206 and 280
onClick(c) == recordActivity(c)

\* behavior.ts 208-225: code is "modifier" for Shift, Control, Alt, Meta
onKeyDown(c, code, flightInRange, intervalInRange) ==
  LET c0 == recordActivity(c)
  IN IF code = "modifier" THEN c0
     ELSE LET c1 == IF c0.lastKeyUp /\ flightInRange
                    THEN PushBelowMax(c0, "flightTimes") ELSE c0
              c2 == IF c1.keyDownTimes # {} /\ c1.len["keystrokeIntervals"] < MAX
                       /\ intervalInRange
                    THEN Push(c1, "keystrokeIntervals") ELSE c1
          IN [c2 EXCEPT !.keyDownTimes = @ \cup {code}]

\* behavior.ts 227-237
onKeyUp(c, code, dwellInRange) ==
  IF code = "modifier" THEN c
  ELSE LET c1 == IF code \in c.keyDownTimes
                 THEN [(IF dwellInRange THEN PushBelowMax(c, "keystrokeDwells") ELSE c)
                         EXCEPT !.keyDownTimes = @ \ {code}]
                 ELSE c
       IN [c1 EXCEPT !.lastKeyUp = TRUE]

\* behavior.ts 239-253
onScroll(c, dtPositive) ==
  LET c0 == recordActivity(c)
      c1 == IF dtPositive /\ c0.lastScrollTime
            THEN PushBelowMax(c0, "scrollVelocities") ELSE c0
  IN [c1 EXCEPT !.lastScrollTime = TRUE]

\* behavior.ts 255-263, risk-engine.ts 565-575: a touchstart with n touches,
\* all of them with or without force and radius
onTouchStart(c, n, hasForce, hasRadius) ==
  LET c0 == recordActivity(c)
      c1 == IF hasForce THEN Times(n, "touchPressures", c0) ELSE c0
      c2 == IF hasRadius THEN Times(n, "touchRadii", c1) ELSE c1
  IN IF c.src = "engine" THEN [c2 EXCEPT !.touchStartTimes = @ \cup (1..n)] ELSE c2

RECURSIVE touchTrack(_, _, _)
touchTrack(c, n, dtPositive) ==
  IF n = 0 THEN c
  ELSE touchTrack(trackPoint(c, "touchPoints", "touchVelocities", "touchAccelerations",
                             "touchCurvatures", dtPositive), n - 1, dtPositive)

\* behavior.ts 272 (activity only), risk-engine.ts 577-603
onTouchMove(c, n, dtPositive) ==
  IF c.src = "behavior" THEN recordActivity(c)
  ELSE touchTrack(recordActivity(c), n, dtPositive)

RECURSIVE touchEnds(_, _, _)
touchEnds(c, n, durInRange) ==
  IF n = 0 THEN c
  ELSE LET c1 == IF n \in c.touchStartTimes
                 THEN [(IF durInRange THEN PushBelowMax(c, "touchHoldDurations") ELSE c)
                         EXCEPT !.touchStartTimes = @ \ {n}]
                 ELSE c
       IN touchEnds(c1, n - 1, durInRange)

\* risk-engine.ts 605-616; behavior.ts has no touchend listener
onTouchEnd(c, n, durInRange) ==
  IF c.src = "behavior" THEN c ELSE touchEnds(c, n, durInRange)

\* risk-engine.ts 618-632: devicemotion and deviceorientation, the three axes
\* of a reading kept as one buffer each of equal length
onDeviceSensor(c, buf, hasReading) ==
  IF c.src = "behavior" \/ ~hasReading THEN c ELSE PushBelowMax(c, buf)

\* behavior.ts 265
onCopyPaste(c) == recordActivity(c)

NewCollector(src) ==
  [fn |-> "behavior", src |-> src, k |-> 0, len |-> [b \in Buffers |-> 0],
   keyDownTimes |-> {}, touchStartTimes |-> {}, lastKeyUp |-> FALSE,
   lastScrollTime |-> FALSE]

InitCollector ==
  /\ decisionSrc = "hardened" /\ configSrc = "widget"
  /\ now = StartTime /\ ticks = 0 /\ loads = 1 /\ storageOk = TRUE
  /\ localStorage = EmptyStorage /\ whitelist = None /\ memoryCache = None
  /\ config = initConfig(WidgetScript)
  /\ state = FreshState /\ bootPc = "init" /\ fetch = IdleFetch
  /\ calls = [i \in 1..MaxCalls |-> IdleCall]
  /\ effects = NoEffects /\ status = NoStatus
  /\ \E src \in CollectorSources : probe = NewCollector(src)

\* the browser delivers one event and its listener runs to the end
Event(c) ==
  /\ probe.fn = "behavior" /\ probe.k < MaxEvents
  /\ probe' = [c EXCEPT !.k = @ + 1]
  /\ UNCHANGED <<envVars, storeVars, sessionVars>>

MouseMove == \E dt \in BOOLEAN : Event(onMouseMove(probe, dt))

Click == Event(onClick(probe))

KeyDown ==
  \E code \in KeyCodes \cup {"modifier"}, f \in BOOLEAN, i \in BOOLEAN :
    Event(onKeyDown(probe, code, f, i))

KeyUp == \E code \in KeyCodes \cup {"modifier"}, d \in BOOLEAN : Event(onKeyUp(probe, code, d))

Scroll == \E dt \in BOOLEAN : Event(onScroll(probe, dt))

TouchStart ==
  \E n \in 1..MaxTouches, f \in BOOLEAN, r \in BOOLEAN : Event(onTouchStart(probe, n, f, r))

TouchMove == \E n \in 1..MaxTouches, dt \in BOOLEAN : Event(onTouchMove(probe, n, dt))

TouchEnd == \E n \in 1..MaxTouches, d \in BOOLEAN : Event(onTouchEnd(probe, n, d))

DeviceMotion == \E has \in BOOLEAN : Event(onDeviceSensor(probe, "accel", has))

DeviceOrientation == \E has \in BOOLEAN : Event(onDeviceSensor(probe, "gyro", has))

CopyPaste == Event(onCopyPaste(probe))

NextCollector ==
  \/ MouseMove
  \/ Click
  \/ KeyDown
  \/ KeyUp
  \/ Scroll
  \/ TouchStart
  \/ TouchMove
  \/ TouchEnd
  \/ DeviceMotion
  \/ DeviceOrientation
  \/ CopyPaste

SpecCollector == InitCollector /\ [][NextCollector]_vars

\* ----------------------------------------------------------------- C31
\* C31: after any sequence of interaction events every telemetry buffer of
\* the collector holds at most MAX entries.
C31_BuffersBounded ==
  probe.fn = "behavior" => \A b \in Buffers : probe.len[b] <= MAX

\* ----------------------------------------------------------------- C36
\* invocation i runs alone: every earlier one had settled when it started
\* and no later one has been made
RunsAlone(i) ==
  /\ calls[i].after
  /\ \A j \in (i + 1)..MaxCalls : calls[j].pc = "idle"

\* the next step of invocation i evaluates the hysteresis conditions
BeforeHysteresis(i) ==
  decisionSrc = "hardened" /\ calls[i].pc = "awaitValidate"

\* whatever validate() yields, the invocation continues as it would with no
\* previous decision
PreviousDecisionInert(i) ==
  \A resp \in ValidateOutcomes :
    afterValidate(state, calls[i], effects, whitelist, resp)
      = afterValidate([state EXCEPT !.lastDecision = "null"], calls[i], effects,
                      whitelist, resp)

\* C36: when runDecision invocations do not overlap, state.lastDecision is
\* neither allow nor soft when the hysteresis conditions are evaluated, so
\* hysteresis changes no decision of such an invocation.
C36_HysteresisInertWithoutOverlap ==
  \A i \in 1..MaxCalls :
    BeforeHysteresis(i) /\ RunsAlone(i) =>
      /\ state.lastDecision \notin {"allow", "soft"}
      /\ PreviousDecisionInert(i)

\* a second invocation, made after the first one was blocked, about to
\* evaluate the conditions
C36_Witness ==
  /\ BeforeHysteresis(2) /\ RunsAlone(2)
  /\ calls[1].pc = "done" /\ calls[1].ret = "block"
  /\ state.lastDecision = "block"

\* ----------------------------------------------------------------- C38
\* invocation i resolves in this step
Resolves(i) == calls[i].pc # "done" /\ calls'[i].pc = "done"

\* C38: whenever a runDecision call resolves, the value it returns equals
\* state.lastDecision at that moment, and state.lastDecision is not null, on
\* every path (short-circuit, degraded path, server-issued block or bunker,
\* rule-based decision, failed challenge, error handler).
C38_ReturnsStoredDecision ==
  [][\A i \in 1..MaxCalls :
       Resolves(i) =>
         state'.lastDecision # "null" /\ calls'[i].ret = state'.lastDecision]_vars

\* ------------------------------------------------------- the soft actions
\* executeSoft (soft.ts 88-111) on the softActions list of the resolved
\* policy, inside the run of the pipeline that awaits it. `probe` holds the
\* executor: list the policy's softActions (None: the member is absent), pc
\* its position, i the index of the loop, ran the actions run so far,
\* elapsed the ms since powLite started and target its duration.
MaxSoftLen == 2

SoftNames == {"pow-lite", "js-attestation", "silent-retry", "token-refresh", "other"}

KnownSoft == SoftNames \ {"other"}

SoftLists == UNION {[1..n -> SoftNames] : n \in 0..MaxSoftLen}

\* soft.ts 16 and 22: 150-300 ms of work in batches of 5 ms
PowBatchMs == 5

PowTargets == {150, 300}

\* soft.ts 89
softActions(ex) == IF ex.list = None THEN <<"pow-lite", "js-attestation">> ELSE ex.list[1]

IdleSoft(list) ==
  [fn |-> "executeSoft", list |-> list, pc |-> "idle", i |-> 1, ran |-> <<>>,
   elapsed |-> 0, target |-> 0]

Ran(ex, a) == [ex EXCEPT !.ran = Append(@, a), !.i = @ + 1, !.pc = "loop"]

softLoop_StopsAtUnknown(ex, target) ==
  IF ex.i > Len(softActions(ex)) THEN [ex EXCEPT !.pc = "resolved"]
  ELSE LET a == softActions(ex)[ex.i]
       IN CASE a = "pow-lite" -> [ex EXCEPT !.pc = "powLite", !.elapsed = 0, !.target = target]
            [] a = "silent-retry" -> [ex EXCEPT !.pc = "silentRetry"]
            [] a \in {"js-attestation", "token-refresh"} -> Ran(ex, a)
            [] OTHER -> [ex EXCEPT !.pc = "resolved"]

\* soft.ts 92-110: one turn of the for..of loop up to its await
softLoop(ex, target) ==
  IF ex.i > Len(softActions(ex)) THEN [ex EXCEPT !.pc = "resolved"]
  ELSE LET a == softActions(ex)[ex.i]
       IN CASE a = "pow-lite" -> [ex EXCEPT !.pc = "powLite", !.elapsed = 0, !.target = target]
            [] a = "silent-retry" -> [ex EXCEPT !.pc = "silentRetry"]
            [] a \in {"js-attestation", "token-refresh"} -> Ran(ex, a)
            [] OTHER -> [ex EXCEPT !.i = @ + 1]

\* soft.ts 21-34: one batch of work(); the clock has advanced by the batch
powWork(ex) ==
  LET e == ex.elapsed + PowBatchMs
  IN IF e >= ex.target THEN Ran([ex EXCEPT !.elapsed = e], "pow-lite")
     ELSE [ex EXCEPT !.elapsed = e]

InitSoft ==
  /\ decisionSrc \in {"base", "hardened"}
  /\ configSrc = "widget"
  /\ now = StartTime /\ ticks = 0 /\ loads = 1 /\ storageOk = TRUE
  /\ localStorage = EmptyStorage /\ whitelist = None /\ memoryCache = None
  /\ config = initConfig(WidgetScript)
  /\ \E p \in {P_adaptive, P_monitor} : state = [FreshState EXCEPT !.remoteConfig = Some(p)]
  /\ bootPc = "pipeline" /\ fetch = IdleFetch
  /\ calls = [i \in 1..MaxCalls |-> IdleCall]
  /\ effects = NoEffects /\ status = NoStatus
  /\ \E list \in {None} \cup {Some(l) : l \in SoftLists} : probe = IdleSoft(list)

SoftStep(ex) ==
  /\ probe' = ex
  /\ UNCHANGED <<envVars, storeVars, sessionVars>>

\* runDecision has called executeSoft()
SoftBegin ==
  /\ probe.fn = "executeSoft" /\ probe.pc = "idle" /\ calls[1].pc = "awaitSoft"
  /\ SoftStep([probe EXCEPT !.pc = "loop"])

SoftLoop ==
  /\ probe.fn = "executeSoft" /\ probe.pc = "loop"
  /\ \E target \in PowTargets : SoftStep(softLoop(probe, target))

PowWork ==
  /\ probe.fn = "executeSoft" /\ probe.pc = "powLite"
  /\ SoftStep(powWork(probe))

\* soft.ts 71-75: the timer of sleep(jitter(500, 0.3)) fires
SilentRetryDone ==
  /\ probe.fn = "executeSoft" /\ probe.pc = "silentRetry"
  /\ SoftStep(Ran(probe, "silent-retry"))

\* the promise of executeSoft resolves and runDecision resumes
SoftFinish ==
  /\ probe.fn = "executeSoft" /\ probe.pc = "resolved"
  /\ SoftDone(1)

SoftExecutor ==
  \/ SoftBegin
  \/ SoftLoop
  \/ PowWork
  \/ SilentRetryDone
  \/ SoftFinish

NextSoft ==
  \/ RunDecisionStart(1)
  \/ ValidateReturn(1)
  \/ SoftExecutor

\* timers fire and continuations run; the validation may stay pending
SpecSoft == InitSoft /\ [][NextSoft]_vars /\ WF_vars(SoftExecutor)

\* ----------------------------------------------------------------- C35
KnownOf(list) == SelectSeq(list, LAMBDA a : a \in KnownSoft)

\* the actions run so far are the known names among the first i - 1 entries
\* of the list, in list order
RanInListOrder ==
  probe.fn = "executeSoft" =>
    /\ probe.i <= Len(softActions(probe)) + 1
    /\ probe.ran = KnownOf(SubSeq(softActions(probe), 1, probe.i - 1))

SoftRunEnded ==
  /\ calls[1].pc = "done" /\ calls[1].ret = "soft" /\ state.sessionValidated
  /\ probe.ran = KnownOf(softActions(probe))

\* C35: when the decision is soft, executeSoft runs the configured soft
\* actions one after another in list order, skips unknown names and
\* terminates for every softActions list, the empty one included; the run
\* then ends with sessionValidated = true and decision soft.
C35_SoftActionsRunInOrderAndTerminate ==
  /\ []RanInListOrder
  /\ (calls[1].pc = "awaitSoft") ~> SoftRunEnded

\* a run that ended after a list with an unknown name before a known one
C35_Witness ==
  /\ SoftRunEnded
  /\ probe.list = Some(<<"other", "pow-lite">>)
  /\ probe.ran = <<"pow-lite">> /\ probe.elapsed >= probe.target

\* -------------------------------------------------- the challenge action
\* executeChallenge (allow.ts 28-52) on the challengeActions list of the
\* resolved policy, inside the run of the pipeline that awaits it. `probe`
\* holds the executor: list the policy's challengeActions (None: the member
\* is absent), pc its position, shown whether the slider overlay was put up,
\* passed what the promise resolves with.
MaxChallengeLen == 2

ChallengeNames == {"cognitive-lite", "voice-if-enabled", "other"}

ChallengeLists == UNION {[1..n -> ChallengeNames] : n \in 0..MaxChallengeLen}

IdleChallenge(list) ==
  [fn |-> "executeChallenge", list |-> list, pc |-> "idle", shown |-> FALSE,
   passed |-> FALSE]

\* allow.ts 29-31
challengeActions(ex, hard) ==
  IF hard /\ ex.list # None THEN ex.list[1] ELSE <<"cognitive-lite">>

\* allow.ts 35-51: every case of the switch returns cognitiveLite(), so the
\* first entry of the list puts the overlay up; the loop over an empty list
\* falls through to `return true`
executeChallenge(ex, hard) ==
  IF Len(challengeActions(ex, hard)) = 0
  THEN [ex EXCEPT !.pc = "resolved", !.passed = TRUE]
  ELSE [ex EXCEPT !.pc = "overlay", !.shown = TRUE]

\* allow.ts 101-111: the click handler of the overlay's Validate button
cognitiveLiteSubmit(ex, success) == [ex EXCEPT !.pc = "resolved", !.passed = success]

\* policies that differ in where the challenge band ends
P_early_hard ==
  Policy("adaptive", TRUE, [DEFAULT_THRESHOLDS EXCEPT !.soft = 50, !.challenge = 60],
         FALSE, FALSE, 300, TRUE)

ChallengePolicies == {P_adaptive, P_early_hard}

InitChallenge ==
  /\ decisionSrc \in {"base", "hardened"}
  /\ configSrc = "widget"
  /\ now = StartTime /\ ticks = 0 /\ loads = 1 /\ storageOk = TRUE
  /\ localStorage = EmptyStorage /\ whitelist = None /\ memoryCache = None
  /\ config = initConfig(WidgetScript)
  /\ \E p \in ChallengePolicies : state = [FreshState EXCEPT !.remoteConfig = Some(p)]
  /\ bootPc = "pipeline" /\ fetch = IdleFetch
  /\ calls = [i \in 1..MaxCalls |-> IdleCall]
  /\ effects = NoEffects /\ status = NoStatus
  /\ \E list \in {None} \cup {Some(l) : l \in ChallengeLists} :
       probe = IdleChallenge(list)

\* runDecision has called executeChallenge(decision === 'hard_challenge')
ChallengeBegin ==
  /\ probe.fn = "executeChallenge" /\ probe.pc = "idle"
  /\ calls[1].pc = "awaitChallenge"
  /\ probe' = executeChallenge(probe, calls[1].decision = "hard_challenge")
  /\ UNCHANGED <<envVars, storeVars, sessionVars>>

\* the visitor moves the slider and presses Validate
SliderSubmit ==
  /\ probe.fn = "executeChallenge" /\ probe.pc = "overlay"
  /\ \E success \in BOOLEAN : probe' = cognitiveLiteSubmit(probe, success)
  /\ UNCHANGED <<envVars, storeVars, sessionVars>>

\* the promise of executeChallenge resolves and runDecision resumes
ChallengeFinish ==
  /\ probe.fn = "executeChallenge" /\ probe.pc = "resolved"
  /\ calls[1].pc = "awaitChallenge"
  /\ Apply(1, afterChallenge(state, calls[1], effects, whitelist, probe.passed))
  /\ UNCHANGED <<envVars, storeVars, status, bootPc, probe>>

NextChallenge ==
  \/ RunDecisionStart(1)
  \/ ValidateReturn(1)
  \/ ChallengeBegin
  \/ SliderSubmit
  \/ ChallengeFinish

SpecChallenge == InitChallenge /\ [][NextChallenge]_vars

\* ----------------------------------------------------------------- C37
\* C37: a session whose decision is challenge or hard_challenge becomes
\* sessionValidated only after the visitor has passed an interactive
\* verification, for every policy, also one whose challengeActions list is
\* empty or holds only unknown action names.
C37_ValidatedChallengeWasPassedByVisitor ==
  (/\ probe.fn = "executeChallenge"
   /\ state.lastDecision \in {"challenge", "hard_challenge"}
   /\ state.sessionValidated)
    => probe.shown /\ probe.passed

\* ------------------------------------------------- devtools detection
\* src/lib/devtools-detection.ts. `probe` holds the module and the page:
\* devtoolsDetected and detectionInterval are the module's variables (lines
\* 6-7), timers the intervals that are armed (each named by the call that
\* armed it), listeners the calls whose checkWindowSize is a resize
\* listener, det the position of each detectDevTools call, notified the
\* calls whose onDetected ran, wide whether the window's outer size exceeds
\* its inner size by more than the threshold.
MaxDetectors == 3

Detectors == 1..MaxDetectors

IdleDevtools ==
  [fn |-> "devtools", devtoolsDetected |-> FALSE, detectionInterval |-> None,
   timers |-> {}, listeners |-> {}, det |-> [d \in Detectors |-> "none"],
   notified |-> {}, wide |-> FALSE]

\* devtools-detection.ts 14-22 (and 49-52 for the getter trap): the check
\* of call d finds the tools open or not
check(p, d, open) ==
  IF open /\ ~p.devtoolsDetected
  THEN [p EXCEPT !.devtoolsDetected = TRUE, !.notified = @ \cup {d}]
  ELSE p

\* devtools-detection.ts 9-78: the body of call d
detectDevTools(p, d) ==
  LET p1 == check(p, d, p.wide)
  IN [p1 EXCEPT !.listeners = @ \cup {d}, !.timers = @ \cup {d},
                !.detectionInterval = Some(d), !.det[d] = "active"]

\* devtools-detection.ts 72-77: the function call d returned
cleanup(p, d) ==
  [p EXCEPT !.listeners = @ \ {d},
            !.timers = IF p.detectionInterval # None
                       THEN @ \ {p.detectionInterval[1]} ELSE @,
            !.det[d] = "cleaned"]

RECURSIVE checkAll(_, _)
\* the resize listeners run in the order they were added
checkAll(p, ds) ==
  IF ds = {} THEN p
  ELSE LET d == CHOOSE x \in ds : \A y \in ds : x <= y
       IN checkAll(check(p, d, p.wide), ds \ {d})

InitDevtools ==
  /\ decisionSrc = "hardened" /\ configSrc = "widget"
  /\ now = StartTime /\ ticks = 0 /\ loads = 1 /\ storageOk = TRUE
  /\ localStorage = EmptyStorage /\ whitelist = None /\ memoryCache = None
  /\ config = [widgetPublicId |-> "", tenantId |-> "T1"]
  /\ state = FreshState /\ bootPc = "init" /\ fetch = IdleFetch
  /\ calls = [i \in 1..MaxCalls |-> IdleCall]
  /\ effects = NoEffects /\ status = NoStatus
  /\ probe = IdleDevtools

DevtoolsStep(p) ==
  /\ probe' = p
  /\ UNCHANGED <<envVars, storeVars, sessionVars>>

\* detectDevTools(onDetected) is called; calls are numbered in order
DetectCall(d) ==
  /\ probe.fn = "devtools" /\ probe.det[d] = "none"
  /\ \A e \in Detectors : e < d => probe.det[e] # "none"
  /\ DevtoolsStep(detectDevTools(probe, d))

\* the cleanup function of call d is called
CleanupCall(d) ==
  /\ probe.fn = "devtools" /\ probe.det[d] = "active"
  /\ DevtoolsStep(cleanup(probe, d))

\* devtools-detection.ts 62-69: the interval armed by call d fires
IntervalFires(d) ==
  /\ probe.fn = "devtools" /\ d \in probe.timers
  /\ \E trap \in BOOLEAN : DevtoolsStep(check(probe, d, probe.wide \/ trap))

\* the window is resized
Resize ==
  /\ probe.fn = "devtools"
  /\ \E w \in BOOLEAN :
       DevtoolsStep(checkAll([probe EXCEPT !.wide = w], probe.listeners))

\* devtools-detection.ts 84-86
ResetDevToolsDetection ==
  /\ probe.fn = "devtools" /\ probe.devtoolsDetected
  /\ DevtoolsStep([probe EXCEPT !.devtoolsDetected = FALSE])

NextDevtools ==
  \/ \E d \in Detectors : DetectCall(d)
  \/ \E d \in Detectors : CleanupCall(d)
  \/ \E d \in Detectors : IntervalFires(d)
  \/ Resize
  \/ ResetDevToolsDetection

SpecDevtools == InitDevtools /\ [][NextDevtools]_vars

\* ----------------------------------------------------------------- C40
\* the cleanup function of call d runs in this step
CleansUp(d) == probe.det[d] = "active" /\ probe'.det[d] = "cleaned"

\* C40: the cleanup function returned by a detectDevTools call stops the
\* periodic checks and the resize listener started by that call, and only
\* those, also when several detectors are active at the same time.
C40_CleanupStopsItsOwnChecks ==
  [][\A d \in Detectors :
       CleansUp(d) =>
         /\ probe'.timers = probe.timers \ {d}
         /\ probe'.listeners = probe.listeners \ {d}]_vars

====
